---- MODULE Spec2Model ----
(***************************************************************************)
(* Record-to-row normalization pipeline of the Shopify/Matrixify           *)
(* converter: the slugifier, the column resolver, the three batch modes    *)
(* (flexible CSV, structured JSON array, re-projection of a Shopify       *)
(* export) and the single-record scraper, each as a state machine over its *)
(* input; the slugifier applied on its own; and two invocations of one     *)
(* batch mode on one service instance.                                     *)
(*                                                                         *)
(* Text is a sequence of one-character strings, so that the slugifier, the *)
(* trimming and the splitting are computed character by character; a       *)
(* character outside ASCII is written as its code point, "U+00E9".         *)
(* A row is a function from column names to cells; an absent key is a      *)
(* column the row does not carry.                                          *)
(***************************************************************************)
EXTENDS Integers, Sequences, FiniteSets, TLC

\* ------------------------------------------------------------------ bounds
\* Largest number of parsed input rows of one run.
MaxRows == 3
\* The longest text handed to slugify when it is applied on its own.
MaxSlugLen == 4
\* Largest number of input rows of each of two invocations on one instance.
MaxConcRows == 2
\* The longest name and key the handle derivation is tried on.
MaxHandleLen == 2
\* The most entries the log holds before a service is constructed.
MaxPriorLogs == 2
\* The most skipped rows a run of the CSV view logs.
MaxSkipLogs == 2

\* ------------------------------------------------------------------ text
\* JavaScript null / undefined as the result of a lookup: a one-element
\* sequence whose element is not a character, so it equals no text.
NULL == <<"null">>

\* JavaScript truthiness of a string-or-null value.
Truthy(v) == v # NULL /\ v # <<>>

\* x || y on string-or-null values.
OrElse(x, y) == IF Truthy(x) THEN x ELSE y

LowerLetters == <<"a", "b", "c", "d", "e", "f", "g", "h", "i", "j", "k", "l", "m", "n", "o", "p", "q", "r", "s", "t", "u", "v", "w", "x", "y", "z">>
UpperLetters == <<"A", "B", "C", "D", "E", "F", "G", "H", "I", "J", "K", "L", "M", "N", "O", "P", "Q", "R", "S", "T", "U", "V", "W", "X", "Y", "Z">>
DigitChars == <<"0", "1", "2", "3", "4", "5", "6", "7", "8", "9">>

IndexOf(seq, c) ==
  IF \E i \in 1..Len(seq) : seq[i] = c
  THEN CHOOSE i \in 1..Len(seq) : seq[i] = c /\ \A j \in 1..(i - 1) : seq[j] # c
  ELSE 0

Range(seq) == {seq[i] : i \in 1..Len(seq)}

\* String.prototype.toLowerCase on one character.
LowerChar(c) == IF c \in Range(UpperLetters) THEN LowerLetters[IndexOf(UpperLetters, c)] ELSE c
toLowerCase(s) == [i \in 1..Len(s) |-> LowerChar(s[i])]

\* \w of a regular expression.
IsWord(c) == c \in Range(LowerLetters) \/ c \in Range(UpperLetters) \/ c \in Range(DigitChars) \/ c = "_"

RECURSIVE DropWhile(_, _)
DropWhile(s, drop) ==
  IF s # <<>> /\ Head(s) \in drop THEN DropWhile(Tail(s), drop) ELSE s

RECURSIVE DropLastWhile(_, _)
DropLastWhile(s, drop) ==
  IF s # <<>> /\ s[Len(s)] \in drop THEN DropLastWhile(SubSeq(s, 1, Len(s) - 1), drop) ELSE s

\* \s of a regular expression, and the characters String.prototype.trim removes.
SpaceChars == {" ", "\t", "\n"}
trim(s) == DropLastWhile(DropWhile(s, SpaceChars), SpaceChars)

\* value != null && String(value).trim() !== ''
NonBlank(v) == v # NULL /\ trim(v) # <<>>

\* s.replace(/<every character of cls>+/g, by): each maximal run becomes `by`.
RECURSIVE ReplaceRuns(_, _, _)
ReplaceRuns(s, cls, by) ==
  IF s = <<>> THEN <<>>
  ELSE IF Head(s) \in cls THEN by \o ReplaceRuns(DropWhile(s, cls), cls, by)
  ELSE <<Head(s)>> \o ReplaceRuns(Tail(s), cls, by)

\* s.replace(/c/g, by) for one character c.
RECURSIVE ReplaceChar(_, _, _)
ReplaceChar(s, c, by) ==
  IF s = <<>> THEN <<>>
  ELSE (IF Head(s) = c THEN by ELSE <<Head(s)>>) \o ReplaceChar(Tail(s), c, by)

\* ------------------------------------------------------------------ slugify
SlugA == <<"U+00E0", "U+00E1", "U+00E2", "U+00E4", "U+00E6", "U+00E3", "U+00E5", "U+0101", "U+0103", "U+0105", "U+00E7", "U+0107", "U+010D", "U+0111", "U+010F", "U+00E8",
       "U+00E9", "U+00EA", "U+00EB", "U+0113", "U+0117", "U+0119", "U+011B", "U+011F", "U+01F5", "U+1E27", "U+00EE", "U+00EF", "U+00ED", "U+012B", "U+012F", "U+00EC",
       "U+0142", "U+1E3F", "U+00F1", "U+0144", "U+01F9", "U+0148", "U+00F4", "U+00F6", "U+00F2", "U+00F3", "U+0153", "U+00F8", "U+014D", "U+00F5", "U+0151", "U+1E55",
       "U+0155", "U+0159", "U+00DF", "U+015B", "U+0161", "U+015F", "U+0219", "U+0165", "U+021B", "U+00FB", "U+00FC", "U+00F9", "U+00FA", "U+016B", "U+01D8", "U+016F",
       "U+0171", "U+0173", "U+1E83", "U+1E8D", "U+00FF", "U+00FD", "U+017E", "U+017A", "U+017C", "U+00B7", "/", "_", ",", ":", ";">>
SlugB == <<"a", "a", "a", "a", "a", "a", "a", "a", "a", "a", "c", "c", "c", "d", "d", "e",
       "e", "e", "e", "e", "e", "e", "e", "g", "g", "h", "i", "i", "i", "i", "i", "i",
       "l", "m", "n", "n", "n", "n", "o", "o", "o", "o", "o", "o", "o", "o", "o", "p",
       "r", "r", "s", "s", "s", "s", "s", "t", "t", "u", "u", "u", "u", "u", "u", "u",
       "u", "u", "w", "x", "y", "y", "z", "z", "z", "-", "-", "-", "-", "-", "-">>

\* .replace(p, c => b.charAt(a.indexOf(c)))
Transliterate(s) ==
  [i \in 1..Len(s) |-> IF s[i] \in Range(SlugA) THEN SlugB[IndexOf(SlugA, s[i])] ELSE s[i]]

\* .replace(/[^\w\-]+/g, '')
StripNonWord(s) == SelectSeq(s, LAMBDA c : IsWord(c) \/ c = "-")

\* .replace(/\-\-+/g, '-')
RECURSIVE CollapseHyphens(_)
CollapseHyphens(s) ==
  IF s = <<>> THEN <<>>
  ELSE IF Head(s) = "-" THEN <<"-">> \o CollapseHyphens(DropWhile(s, {"-"}))
  ELSE <<Head(s)>> \o CollapseHyphens(Tail(s))

TrimHyphensStart(s) == DropWhile(s, {"-"})
TrimHyphensEnd(s) == DropLastWhile(s, {"-"})

\* slugify trimming the hyphens before the non-word characters are removed.
slugifyTrimFirst(text) ==
  IF ~Truthy(text) THEN <<>>
  ELSE CollapseHyphens(StripNonWord(TrimHyphensEnd(TrimHyphensStart(
         ReplaceChar(Transliterate(ReplaceRuns(toLowerCase(text), SpaceChars, <<"-">>)),
                     "&", <<"-", "a", "n", "d", "-">>)))))

\* slugify without the collapse of hyphen runs.
slugifyNoCollapse(text) ==
  IF ~Truthy(text) THEN <<>>
  ELSE TrimHyphensEnd(TrimHyphensStart(StripNonWord(
         ReplaceChar(Transliterate(ReplaceRuns(toLowerCase(text), SpaceChars, <<"-">>)),
                     "&", <<"-", "a", "n", "d", "-">>))))

slugify(text) ==
  IF ~Truthy(text) THEN <<>>
  ELSE TrimHyphensEnd(TrimHyphensStart(CollapseHyphens(StripNonWord(
         ReplaceChar(Transliterate(ReplaceRuns(toLowerCase(text), SpaceChars, <<"-">>)),
                     "&", <<"-", "a", "n", "d", "-">>)))))


\* ------------------------------------------------------------------ cells
\* String(n) for a non-negative integer n.
RECURSIVE NumStr(_)
NumStr(n) ==
  IF n < 10 THEN <<DigitChars[n + 1]>>
  ELSE NumStr(n \div 10) \o <<DigitChars[(n % 10) + 1]>>

\* The literals the services write into rows.
YourStore == <<"Y", "o", "u", "r", "-", "S", "t", "o", "r", "e">>
SizeLit == <<"S", "i", "z", "e">>
DefaultTitle == <<"D", "e", "f", "a", "u", "l", "t", " ", "T", "i", "t", "l", "e">>
TitleLit == <<"T", "i", "t", "l", "e">>
PriceZero == <<"0", ".", "0", "0">>
ZeroLit == <<"0">>
TrueLit == <<"T", "R", "U", "E">>
FalseLit == <<"F", "A", "L", "S", "E">>
DenyLit == <<"d", "e", "n", "y">>
ManualLit == <<"m", "a", "n", "u", "a", "l">>
BrLit == <<"<", "b", "r", ">">>
CautionPrefix == <<"<", "b", "r", ">", "<", "b", "r", ">", "<", "s", "t", "r", "o", "n", "g", ">", "U+6CE8", "U+610F", ":", "<", "/", "s", "t", "r", "o", "n", "g", ">", " ">>
MaterialPrefix == <<"<", "b", "r", ">", "<", "b", "r", ">", "<", "s", "t", "r", "o", "n", "g", ">", "U+7D20", "U+6750", ":", "<", "/", "s", "t", "r", "o", "n", "g", ">", " ">>
CommaSpace == <<",", " ">>
TitleSep == <<" ", "-", " ">>

\* The row with no column.
EmptyRow == [c \in {} |-> <<>>]

\* constants.ts: the fixed header, in order.
MATRIXIFY_HEADERS ==
  <<"Handle", "Title", "Vendor", "Published", "Body (HTML)", "Tags", "Image Src",
    "Variant Image", "Image Position", "Option1 Name", "Option1 Value", "Variant SKU",
    "Variant Price", "Variant Grams", "Variant Inventory Qty",
    "Variant Requires Shipping", "Variant Taxable", "Gift Card">>

\* MatrixifyRow cells are string | number: the columns the services fill with numbers.
NumberColumns == {"Image Position", "Variant Inventory Qty", "Variant Grams"}

\* The text Papa.unparse writes for one cell of a MatrixifyRow (absent -> empty).
CellText(row, col) ==
  IF col \notin DOMAIN row THEN <<>>
  ELSE IF col \in NumberColumns THEN NumStr(row[col])
  ELSE IF row[col] = NULL THEN <<>>
  ELSE row[col]

\* Papa.unparse(rows, {columns: MATRIXIFY_HEADERS, header: true}) as a sequence of
\* lines, each a sequence of fields; line 1 is the header.
Unparse(rs) ==
  <<MATRIXIFY_HEADERS>> \o
  [i \in 1..Len(rs) |-> [j \in 1..Len(MATRIXIFY_HEADERS) |-> CellText(rs[i], MATRIXIFY_HEADERS[j])]]

\* parts.filter(Boolean).join(sep)
RECURSIVE JoinWith(_, _)
JoinWith(parts, sep) ==
  IF parts = <<>> THEN <<>>
  ELSE IF Len(parts) = 1 THEN Head(parts)
  ELSE Head(parts) \o sep \o JoinWith(Tail(parts), sep)

FilterBoolean(parts) == SelectSeq(parts, LAMBDA v : Truthy(v))

\* ------------------------------------------------------------------ column resolver
COLUMN_MAP ==
  [product_id |-> <<"productID", "productId", "productId_1">>,
   name |-> <<"name", "productName">>,
   description |-> <<"description">>,
   caution |-> <<"caution">>,
   material |-> <<"material">>,
   main_image |-> <<"mainImage", "image">>,
   thumbnail_images |-> <<"thumbnailImages">>,
   color |-> <<"color">>,
   size |-> <<"size">>,
   fit |-> <<"fitLevel">>,
   brand |-> <<"brandName">>]

\* getCol without the trim: a blank cell counts as a value.
getColNoTrim(row, key) ==
  LET names == COLUMN_MAP[key]
      present(i) == names[i] \in DOMAIN row /\ Truthy(row[names[i]])
  IN IF \E i \in 1..Len(names) : present(i)
     THEN row[names[CHOOSE i \in 1..Len(names) : present(i) /\ \A j \in 1..(i - 1) : ~present(j)]]
     ELSE NULL

getCol(row, key) ==
  LET names == COLUMN_MAP[key]
      present(i) == names[i] \in DOMAIN row /\ NonBlank(row[names[i]])
  IN IF \E i \in 1..Len(names) : present(i)
     THEN row[names[CHOOSE i \in 1..Len(names) : present(i) /\ \A j \in 1..(i - 1) : ~present(j)]]
     ELSE NULL

\* ------------------------------------------------------------------ state
VARIABLES
  mode,          \* which entry point the invocation entered
  pc,            \* position of the running invocation
  log,           \* the entries passed to addLog, in order
  result,        \* what the invocation returned or threw
  inputRows,     \* CsvProcessorService: parseResult.data, as far as consumed
  outputRows,    \* CsvProcessorService: outputRows
  seenSkus,      \* CsvProcessorService: seenSkus
  rowSource,     \* history: for each element of outputRows, the index of its input row
  data,          \* JsonProcessorService: parsedJson.data, as far as consumed
  rows,          \* JsonProcessorService: rows
  processedHandlesForImages,  \* JsonProcessorService: processedHandlesForImages
  rowProduct,    \* history: for each element of rows, the index of its product in data
  parsed,        \* ShopifyProcessorService: the rows parseCsv resolved, as far as consumed
  shopifyRows,   \* ShopifyProcessorService: rows after the forward-fill map
  lastTitle,     \* ShopifyProcessorService: lastTitle
  lastVendor,    \* ShopifyProcessorService: lastVendor
  lastOption1Name,  \* ShopifyProcessorService: lastOption1Name
  mapped,        \* ShopifyProcessorService: the results of the defaults map, before the filter
  processedRows, \* ShopifyProcessorService: processedRows
  extractedData, \* ScraperService: extractedData
  scraperRows,   \* ScraperService: outputRows
  slugText,      \* the argument of a slugify call
  slugOnce,      \* slugify(text), for each of the three implementations
  slugTwice,     \* slugify(slugify(text)), for each of the three implementations
  service,       \* two invocations on one instance: the service they are made on
  running,       \* the invocation holding the thread (0: none)
  inv,           \* per invocation: position, input and the locals of its call frame
  callArgs,      \* the arguments of a call of a pure helper
  callResult,    \* what the call returned
  ctorClass,     \* the class whose constructor runs
  apiKey,        \* process.env.API_KEY: TRUE when set to a non-empty string
  thisAddLog,    \* whether this.addLog has been assigned
  view,          \* the UI view whose handleProcessAndDownload runs
  isLoading,     \* useState isLoading
  error,         \* useState error: "null" or a message
  successMessage \* useState successMessage: "null" or a message

csvVars == <<inputRows, outputRows, seenSkus, rowSource>>
jsonVars == <<data, rows, processedHandlesForImages, rowProduct>>
shopifyVars ==
  <<parsed, shopifyRows, lastTitle, lastVendor, lastOption1Name, mapped, processedRows>>
scraperVars == <<extractedData, scraperRows>>
slugVars == <<slugText, slugOnce, slugTwice>>
concVars == <<service, running, inv>>
pureVars == <<callArgs, callResult>>
ctorVars == <<ctorClass, apiKey, thisAddLog>>
uiVars == <<view, isLoading, error, successMessage>>
laterVars == <<pureVars, ctorVars, uiVars>>
vars == <<mode, pc, log, result, csvVars, jsonVars, shopifyVars, scraperVars, slugVars,
          concVars, laterVars>>

\* What each service leaves alone: the state of the other services.
NotCsv == <<mode, jsonVars, shopifyVars, scraperVars, slugVars, concVars, laterVars>>
NotJson == <<mode, csvVars, shopifyVars, scraperVars, slugVars, concVars, laterVars>>
NotShopify == <<mode, csvVars, jsonVars, scraperVars, slugVars, concVars, laterVars>>
NotScraper == <<mode, csvVars, jsonVars, shopifyVars, slugVars, concVars, laterVars>>

\* The state of a service that is not running.
CsvIdle == inputRows = <<>> /\ outputRows = <<>> /\ seenSkus = {} /\ rowSource = <<>>
JsonIdle == data = <<>> /\ rows = <<>> /\ processedHandlesForImages = {} /\ rowProduct = <<>>
ShopifyIdle ==
  /\ parsed = <<>> /\ shopifyRows = <<>> /\ mapped = <<>> /\ processedRows = <<>>
  /\ lastTitle = <<>> /\ lastVendor = <<>> /\ lastOption1Name = <<>>
ScraperIdle == extractedData = EmptyRow /\ scraperRows = <<>>
SlugIdle == slugText = <<>> /\ slugOnce = <<>> /\ slugTwice = <<>>
ConcIdle == service = "none" /\ running = 0 /\ inv = <<>>
PureIdle == callArgs = <<>> /\ callResult = <<>>
CtorIdle == ctorClass = "none" /\ apiKey = FALSE /\ thisAddLog = FALSE
UiIdle == view = "none" /\ isLoading = FALSE /\ error = <<"null">> /\ successMessage = <<"null">>
LaterIdle == PureIdle /\ CtorIdle /\ UiIdle
\* The state of the batch modes, the scraper, slugify and the concurrent invocations.
earlierVars == <<csvVars, jsonVars, shopifyVars, scraperVars, slugVars, concVars>>
EarlierIdle ==
  CsvIdle /\ JsonIdle /\ ShopifyIdle /\ ScraperIdle /\ SlugIdle /\ ConcIdle

LogEntry(message, type) == [message |-> message, type |-> type]
Pending == [status |-> "pending"]
Thrown(message) == [status |-> "thrown", message |-> message]
Returned(text) == [status |-> "returned", hasText |-> TRUE, generatedCsvString |-> text]
\* { generatedCsvString: null }
ReturnedNull == [status |-> "returned", hasText |-> FALSE]

\* ------------------------------------------------------------------ flexible CSV mode
\* The parsed rows a run may meet: every way of giving the business key, with and
\* without a name, and one product with each shape of image cells.
CsvIdCells ==
  {EmptyRow,
   "productID" :> <<" ">>,
   "productID" :> <<"A">>,
   "productID" :> <<"a">>,
   "productID" :> <<"U+65E5">>,
   ("productID" :> <<" ">>) @@ ("productId" :> <<"B">>)}
CsvNameCells == {EmptyRow, "name" :> <<"x">>}
CsvImageCells ==
  {"mainImage" :> <<"u">>,
   ("mainImage" :> <<"u">>) @@ ("thumbnailImages" :> <<"u", ";", "v">>),
   "thumbnailImages" :> <<"v", ",", " ", ";", "v">>}
CsvRecords ==
  {id @@ nm : id \in CsvIdCells, nm \in CsvNameCells}
  \cup {("productID" :> <<"A">>) @@ ("name" :> <<"x">>) @@ img : img \in CsvImageCells}

\* "The CSV file is empty or holds no valid data row." (the message is Japanese in the source)
EmptyCsvMessage == "CSV file is empty or has no valid data rows"
\* "No processable product data was found in the CSV file."
NoProductsCsvMessage == "no processable product data found in the CSV file"

\* thumbStr.split(/[;,]/)
RECURSIVE SplitOn(_, _, _)
SplitOn(s, seps, cur) ==
  IF s = <<>> THEN <<cur>>
  ELSE IF Head(s) \in seps THEN <<cur>> \o SplitOn(Tail(s), seps, <<>>)
  ELSE SplitOn(Tail(s), seps, Append(cur, Head(s)))

\* thumbStr.split(/[;,]/).map(u => u.trim()).filter(Boolean)
Thumbs(thumbStr) ==
  LET pieces == SplitOn(thumbStr, {";", ","}, <<>>)
  IN SelectSeq([i \in 1..Len(pieces) |-> trim(pieces[i])], LAMBDA u : u # <<>>)

\* description / caution / material blocks of Body (HTML)
CsvHtmlBody(r) ==
  LET description == getCol(r, "description")
      material == getCol(r, "material")
      caution == getCol(r, "caution")
  IN (IF Truthy(description) THEN ReplaceChar(description, "\n", BrLit) ELSE <<>>)
     \o (IF Truthy(caution) THEN CautionPrefix \o ReplaceChar(caution, "\n", BrLit) ELSE <<>>)
     \o (IF Truthy(material) THEN MaterialPrefix \o ReplaceChar(material, "\n", BrLit) ELSE <<>>)

\* CsvTitle with the key before the name.
CsvTitleKeyFirst(r, styleNo) == styleNo \o TitleSep \o OrElse(getCol(r, "name"), <<>>)

\* CsvTitle without the key.
CsvTitleNameOnly(r, styleNo) == OrElse(getCol(r, "name"), <<>>) \o TitleSep

CsvTitle(r, styleNo) == OrElse(getCol(r, "name"), <<>>) \o TitleSep \o styleNo

CsvHandle(r, styleNo) == OrElse(slugify(CsvTitle(r, styleNo)), slugify(styleNo))

CsvBaseRow(r, styleNo, handle) ==
  [c \in {"Handle", "Title", "Body (HTML)", "Vendor", "Tags", "Option1 Name",
          "Option1 Value", "Variant SKU", "Variant Price", "Variant Inventory Qty",
          "Variant Grams", "Variant Requires Shipping", "Variant Taxable", "Published",
          "Gift Card"} |->
     CASE c = "Handle" -> handle
       [] c = "Title" -> CsvTitle(r, styleNo)
       [] c = "Body (HTML)" -> CsvHtmlBody(r)
       [] c = "Vendor" -> OrElse(getCol(r, "brand"), YourStore)
       [] c = "Tags" ->
            JoinWith(FilterBoolean(<<getCol(r, "color"), getCol(r, "material"),
                                     getCol(r, "fit")>>), CommaSpace)
       [] c = "Option1 Name" -> SizeLit
       [] c = "Option1 Value" -> OrElse(getCol(r, "size"), DefaultTitle)
       [] c = "Variant SKU" -> styleNo
       [] c = "Variant Price" -> PriceZero
       [] c = "Variant Inventory Qty" -> 0
       [] c = "Variant Grams" -> 0
       [] c = "Variant Requires Shipping" -> TrueLit
       [] c = "Variant Taxable" -> TrueLit
       [] c = "Published" -> TrueLit
       [] c = "Gift Card" -> FalseLit]

CsvMainVariantRow(r, styleNo, handle) ==
  LET mainImg == OrElse(getCol(r, "main_image"), <<>>)
  IN ("Image Src" :> mainImg) @@ ("Variant Image" :> mainImg) @@ ("Image Position" :> 1)
     @@ CsvBaseRow(r, styleNo, handle)

\* CsvImageRows numbering the thumbnails from index + 1.
CsvImageRowsFromOne(r, handle) ==
  LET thumbStr == getCol(r, "thumbnail_images")
      thumbs == IF Truthy(thumbStr) THEN Thumbs(thumbStr) ELSE <<>>
  IN [i \in 1..Len(thumbs) |->
        ("Handle" :> handle) @@ ("Image Src" :> thumbs[i]) @@ ("Image Position" :> (i - 1) + 1)]

CsvImageRows(r, handle) ==
  LET thumbStr == getCol(r, "thumbnail_images")
      thumbs == IF Truthy(thumbStr) THEN Thumbs(thumbStr) ELSE <<>>
  IN [i \in 1..Len(thumbs) |->
        ("Handle" :> handle) @@ ("Image Src" :> thumbs[i]) @@ ("Image Position" :> (i - 1) + 2)]

\* CsvExpand pushing the thumbnail rows before the main variant row.
CsvExpandPrimaryLast(r, styleNo, handle) ==
  CsvImageRows(r, handle) \o <<CsvMainVariantRow(r, styleNo, handle)>>

\* The rows one input row appends to outputRows.
CsvExpand(r, styleNo, handle) ==
  <<CsvMainVariantRow(r, styleNo, handle)>> \o CsvImageRows(r, handle)

\* CsvSkipReason without the seenSkus test.
CsvSkipReasonNoDedup(r, seen) ==
  LET styleNo == getCol(r, "product_id")
  IN IF ~Truthy(styleNo) THEN "Row is missing a product ID, skipping"
     ELSE IF ~Truthy(CsvHandle(r, styleNo)) THEN "Could not generate handle for row, skipping"
     ELSE "none"

\* Why the loop body skips row r ("none": it reaches seenSkus.add and the expansion).
CsvSkipReason(r, seen) ==
  LET styleNo == getCol(r, "product_id")
  IN IF ~Truthy(styleNo) THEN "Row is missing a product ID, skipping"
     ELSE IF styleNo \in seen THEN "Duplicate SKU found, skipping"
     ELSE IF ~Truthy(CsvHandle(r, styleNo)) THEN "Could not generate handle for row, skipping"
     ELSE "none"

CsvInit ==
  /\ pc = "parse"
  /\ log = <<>>
  /\ result = Pending
  /\ mode = "csv"
  /\ CsvIdle /\ JsonIdle /\ ShopifyIdle /\ ScraperIdle /\ SlugIdle /\ ConcIdle /\ LaterIdle

\* Papa.parse, and the guard on an empty parse result.
CsvParseEmpty ==
  /\ pc = "parse"
  /\ \E warnings \in BOOLEAN :
       log' = <<LogEntry("Parsing CSV file...", "INFO")>>
              \o (IF warnings THEN <<LogEntry("CSV parsing encountered warnings.", "WARNING")>>
                  ELSE <<>>)
  /\ result' = Thrown(EmptyCsvMessage)
  /\ pc' = "done"
  /\ UNCHANGED <<csvVars, NotCsv>>

CsvParseRows ==
  /\ pc = "parse"
  /\ \E warnings \in BOOLEAN :
       log' = <<LogEntry("Parsing CSV file...", "INFO")>>
              \o (IF warnings THEN <<LogEntry("CSV parsing encountered warnings.", "WARNING")>>
                  ELSE <<>>)
              \o <<LogEntry("Found rows in the CSV. Starting processing.", "INFO")>>
  /\ pc' = "loop"
  /\ UNCHANGED <<result, csvVars, NotCsv>>

\* CsvRow with a skipped row ending the run instead of `continue`.
CsvRowAbortOnSkip(r) ==
  /\ pc = "loop"
  /\ Len(inputRows) < MaxRows
  /\ inputRows' = Append(inputRows, r)
  /\ LET styleNo == getCol(r, "product_id")
         reason == CsvSkipReason(r, seenSkus)
     IN IF reason # "none"
        THEN /\ log' = Append(log, LogEntry(reason, "WARNING"))
             /\ result' = Thrown(reason)
             /\ pc' = "done"
             /\ UNCHANGED <<outputRows, seenSkus, rowSource>>
        ELSE LET new == CsvExpand(r, styleNo, CsvHandle(r, styleNo))
             IN /\ seenSkus' = seenSkus \cup {styleNo}
                /\ outputRows' = outputRows \o new
                /\ rowSource' = rowSource \o [i \in 1..Len(new) |-> Len(inputRows) + 1]
                /\ UNCHANGED <<log, pc, result>>
  /\ UNCHANGED NotCsv

\* CsvRow marking the key seen before the handle is tested.
CsvRowMarkBeforeHandle(r) ==
  /\ pc = "loop"
  /\ Len(inputRows) < MaxRows
  /\ inputRows' = Append(inputRows, r)
  /\ LET styleNo == getCol(r, "product_id")
         reason == CsvSkipReason(r, seenSkus)
     IN IF reason # "none"
        THEN /\ log' = Append(log, LogEntry(reason, "WARNING"))
             /\ seenSkus' = IF reason = "Could not generate handle for row, skipping"
                            THEN seenSkus \cup {styleNo} ELSE seenSkus
             /\ UNCHANGED <<outputRows, rowSource>>
        ELSE LET new == CsvExpand(r, styleNo, CsvHandle(r, styleNo))
             IN /\ seenSkus' = seenSkus \cup {styleNo}
                /\ outputRows' = outputRows \o new
                /\ rowSource' = rowSource \o [i \in 1..Len(new) |-> Len(inputRows) + 1]
                /\ UNCHANGED log
  /\ UNCHANGED <<pc, result, NotCsv>>

\* One iteration of `for (const r of inputRows)`.
CsvRow(r) ==
  /\ pc = "loop"
  /\ Len(inputRows) < MaxRows
  /\ inputRows' = Append(inputRows, r)
  /\ LET styleNo == getCol(r, "product_id")
         reason == CsvSkipReason(r, seenSkus)
     IN IF reason # "none"
        THEN /\ log' = Append(log, LogEntry(reason, "WARNING"))
             /\ UNCHANGED <<outputRows, seenSkus, rowSource>>
        ELSE LET new == CsvExpand(r, styleNo, CsvHandle(r, styleNo))
             IN /\ seenSkus' = seenSkus \cup {styleNo}
                /\ outputRows' = outputRows \o new
                /\ rowSource' = rowSource \o [i \in 1..Len(new) |-> Len(inputRows) + 1]
                /\ UNCHANGED log
  /\ UNCHANGED <<pc, result, NotCsv>>

\* CsvFinish without the guard on an empty outputRows.
CsvFinishNoGuard ==
  /\ pc = "loop"
  /\ Len(inputRows) >= 1
  /\ log' = Append(log, LogEntry("Processed unique products. Generating final CSV.", "INFO"))
  /\ result' = Returned(Unparse(outputRows))
  /\ pc' = "done"
  /\ UNCHANGED <<csvVars, NotCsv>>

\* After the loop: the guard on no output row, and Papa.unparse.
CsvFinish ==
  /\ pc = "loop"
  /\ Len(inputRows) >= 1
  /\ IF Len(outputRows) = 0
     THEN /\ result' = Thrown(NoProductsCsvMessage)
          /\ UNCHANGED log
     ELSE /\ log' = Append(log, LogEntry("Processed unique products. Generating final CSV.", "INFO"))
          /\ result' = Returned(Unparse(outputRows))
  /\ pc' = "done"
  /\ UNCHANGED <<csvVars, NotCsv>>

CsvNext ==
  \/ CsvParseEmpty
  \/ CsvParseRows
  \/ \E r \in CsvRecords : CsvRow(r)
  \/ CsvFinish

SpecCsv == CsvInit /\ [][CsvNext]_vars

\* ------------------------------------------------------------------ flexible CSV mode: properties
\* A primary row: a row with a non-blank Variant SKU.
IsPrimary(row) == "Variant SKU" \in DOMAIN row /\ NonBlank(row["Variant SKU"])

\* The business key of the i-th consumed input row (NULL when it has none).
CsvKey(i) == getCol(inputRows[i], "product_id")

\* The index of the first consumed input row whose business key is k.
FirstWithKey(k) ==
  CHOOSE i \in 1..Len(inputRows) : CsvKey(i) = k /\ \A j \in 1..(i - 1) : CsvKey(j) # k

\* The input rows that were skipped: they are the source of no output row.
CsvSkipped == {i \in 1..Len(inputRows) : i \notin Range(rowSource)}

CsvSkipMessages ==
  {"Row is missing a product ID, skipping", "Duplicate SKU found, skipping",
   "Could not generate handle for row, skipping"}

\* The data lines of a returned text (the header line dropped).
DataLines(text) == SubSeq(text, 2, Len(text))

\* The position of a column in the fixed header.
Col(name) == IndexOf(MATRIXIFY_HEADERS, name)

\* C1: every primary row of the output is built from the first input row (in input
\* order) whose resolved product_id is the row's Variant SKU, and no later input
\* row with that key contributes a row.
C1_FirstOccurrenceWins ==
  \A j \in 1..Len(outputRows) :
    IsPrimary(outputRows[j]) =>
      LET k == outputRows[j]["Variant SKU"]
      IN /\ rowSource[j] = FirstWithKey(k)
         /\ \A j2 \in 1..Len(outputRows) :
              CsvKey(rowSource[j2]) = k => rowSource[j2] = FirstWithKey(k)

\* C2: no two primary rows of the output carry the same Variant SKU, in the row
\* sequence and in the returned text alike.
C2_KeyEmittedAtMostOnce ==
  /\ \A i, j \in 1..Len(outputRows) :
       (i # j /\ IsPrimary(outputRows[i]) /\ IsPrimary(outputRows[j]))
         => outputRows[i]["Variant SKU"] # outputRows[j]["Variant SKU"]
  /\ result.status = "returned" =>
       LET lines == DataLines(result.generatedCsvString)
       IN \A i, j \in 1..Len(lines) :
            (i # j /\ NonBlank(lines[i][Col("Variant SKU")]))
              => lines[i][Col("Variant SKU")] # lines[j][Col("Variant SKU")]

\* C2 witness: a finished run whose input repeated a key and whose output has two
\* primary rows.
C2_Witness ==
  /\ result.status = "returned"
  /\ \E i, j \in 1..Len(inputRows) : i < j /\ Truthy(CsvKey(i)) /\ CsvKey(i) = CsvKey(j)
  /\ Cardinality({j \in 1..Len(outputRows) : IsPrimary(outputRows[j])}) >= 2

\* C3: two primary rows of one output with different Variant SKU values have
\* different Handle values.
C3_HandlesCollisionFree ==
  \A i, j \in 1..Len(outputRows) :
    (IsPrimary(outputRows[i]) /\ IsPrimary(outputRows[j])
       /\ outputRows[i]["Variant SKU"] # outputRows[j]["Variant SKU"])
      => outputRows[i]["Handle"] # outputRows[j]["Handle"]

\* C9: a run over zero parsed rows throws the empty-input error, a run over a
\* non-empty input in which no row has a business key throws the different
\* no-processable-records error, and neither returns text.
C9_EmptyAndNoKeyFail ==
  /\ EmptyCsvMessage # NoProductsCsvMessage
  /\ (pc = "done" /\ Len(inputRows) = 0) => result = Thrown(EmptyCsvMessage)
  /\ (pc = "done" /\ Len(inputRows) >= 1 /\ \A i \in 1..Len(inputRows) : ~Truthy(CsvKey(i)))
       => result = Thrown(NoProductsCsvMessage)

\* C9 witness: a finished run over two rows, neither with a business key.
C9_Witness ==
  /\ pc = "done"
  /\ Len(inputRows) >= 2
  /\ \A i \in 1..Len(inputRows) : ~Truthy(CsvKey(i))
  /\ result.status = "thrown"

\* C10, one iteration: an input row either appends at least one output row and logs
\* nothing, or appends no output row and logs exactly one WARNING; either way the
\* loop goes on.
C10_RowStep ==
  Len(inputRows') = Len(inputRows) + 1 =>
    /\ pc' = "loop" /\ result' = Pending
    /\ \/ /\ Len(outputRows') > Len(outputRows)
          /\ SubSeq(outputRows', 1, Len(outputRows)) = outputRows
          /\ log' = log
       \/ /\ outputRows' = outputRows
          /\ Len(log') = Len(log) + 1
          /\ SubSeq(log', 1, Len(log)) = log
          /\ log'[Len(log')].type = "WARNING"

\* C10, every state: the skipped rows are exactly the rows with a WARNING of the loop,
\* one each, and a finished run with an expanded row returned text.
C10_Tally ==
  /\ Cardinality({i \in 1..Len(log) : log[i].type = "WARNING" /\ log[i].message \in CsvSkipMessages})
       = Cardinality(CsvSkipped)
  /\ (pc = "done" /\ Len(outputRows) > 0) => result.status = "returned"
  /\ (pc = "loop" /\ Len(inputRows) < MaxRows) => ENABLED (\E r \in CsvRecords : CsvRow(r))

\* C10: per-record problems never abort the run.
C10_RecordProblemsNeverAbort == [][C10_RowStep]_vars /\ []C10_Tally

\* C10 witness: a run that returned text although it skipped a row with a WARNING,
\* a later row of the input being expanded.
C10_Witness ==
  /\ result.status = "returned"
  /\ \E i \in CsvSkipped : \E j \in 1..Len(rowSource) : rowSource[j] > i
  /\ \E i \in 1..Len(log) : log[i].type = "WARNING" /\ log[i].message \in CsvSkipMessages

\* The output rows built from the i-th consumed input row, in row order.
CsvGroup(i) == SelectSeq([j \in 1..Len(outputRows) |-> j], LAMBDA j : rowSource[j] = i)

\* C14: within the row group of one product no two rows carry the same non-blank
\* Image Src.
C14_ThumbnailsDeduplicated ==
  \A j, k \in 1..Len(outputRows) :
    (j # k /\ rowSource[j] = rowSource[k] /\ NonBlank(outputRows[j]["Image Src"]))
      => outputRows[j]["Image Src"] # outputRows[k]["Image Src"]

\* Whether an input row has neither a non-blank main image nor a non-blank thumbnail.
CsvNoImages(r) ==
  /\ ~NonBlank(OrElse(getCol(r, "main_image"), <<>>))
  /\ LET t == OrElse(getCol(r, "thumbnail_images"), <<>>)
     IN \A n \in 1..Len(t) : t[n] \in SpaceChars \cup {";", ","}

\* C15: an emitted product whose image list is empty yields exactly one row, and
\* that row's Image Src and Image Position are both blank.
C15_NoImagesBlankPosition ==
  \A i \in Range(rowSource) :
    CsvNoImages(inputRows[i])
      => /\ Len(CsvGroup(i)) = 1
         /\ CellText(outputRows[CsvGroup(i)[1]], "Image Src") = <<>>
         /\ CellText(outputRows[CsvGroup(i)[1]], "Image Position") = <<>>

\* The Title the i-th consumed input row calls for: its name, empty when
\* unresolved, " - ", its key.
ExpectedTitle(i) ==
  (IF getCol(inputRows[i], "name") = NULL THEN <<>> ELSE getCol(inputRows[i], "name"))
  \o <<" ", "-", " ">> \o CsvKey(i)

\* C23: every primary row has the resolved key of its record as Variant SKU, name
\* - key as Title, and as Handle the slug of the Title when that is non-empty and
\* the slug of the key otherwise; a record with a key for which both slugs are
\* empty is the source of no row.
C23_PrimaryRowFields ==
  /\ \A j \in 1..Len(outputRows) :
       "Title" \in DOMAIN outputRows[j] =>
         LET i == rowSource[j]
         IN /\ outputRows[j]["Variant SKU"] = CsvKey(i)
            /\ outputRows[j]["Title"] = ExpectedTitle(i)
            /\ outputRows[j]["Handle"] =
                 IF slugify(ExpectedTitle(i)) # <<>> THEN slugify(ExpectedTitle(i))
                 ELSE slugify(CsvKey(i))
            /\ outputRows[j]["Handle"] # <<>>
  /\ \A i \in 1..Len(inputRows) :
       (CsvKey(i) # NULL /\ slugify(ExpectedTitle(i)) = <<>> /\ slugify(CsvKey(i)) = <<>>)
         => i \in CsvSkipped

\* C23 witness: a returned run that skipped a record whose Title and key have empty
\* slugs, emitted a record without a name and emitted a record with a name.
C23_Witness ==
  /\ result.status = "returned"
  /\ \E i \in CsvSkipped : CsvKey(i) # NULL /\ slugify(ExpectedTitle(i)) = <<>>
  /\ \E j \in 1..Len(outputRows) :
       "Title" \in DOMAIN outputRows[j] /\ outputRows[j]["Title"] = <<" ", "-", " ", "a">>
  /\ \E j \in 1..Len(outputRows) :
       "Title" \in DOMAIN outputRows[j] /\ outputRows[j]["Title"] = <<"x", " ", "-", " ", "A">>

\* The primary rows of the output: the rows that carry a Title.
PrimaryRows == {j \in 1..Len(outputRows) : "Title" \in DOMAIN outputRows[j]}

\* C24: when the run returns, the number of keys in seenSkus (the count the run
\* reports) is the number of primary rows of the output and the number of
\* different Variant SKU values of the output, and every key of seenSkus is the
\* Variant SKU of an emitted row.
C24_CountIsPrimaryRows ==
  result.status = "returned" =>
    /\ Cardinality(seenSkus) = Cardinality(PrimaryRows)
    /\ Cardinality(seenSkus) = Cardinality({outputRows[j]["Variant SKU"] : j \in PrimaryRows})
    /\ \A k \in seenSkus : \E j \in PrimaryRows : outputRows[j]["Variant SKU"] = k
    /\ Cardinality(seenSkus) =
         Cardinality({n \in 2..Len(result.generatedCsvString) :
                        result.generatedCsvString[n][Col("Variant SKU")] # <<>>})

\* C24 witness: a returned run of three records that counted two keys: one record
\* was skipped because no handle could be made for it.
C24_Witness ==
  /\ result.status = "returned"
  /\ Len(inputRows) = 3
  /\ Cardinality(seenSkus) = 2
  /\ \E i \in 1..Len(log) : log[i].message = "Could not generate handle for row, skipping"

\* ------------------------------------------------------------------ structured-array (JSON) mode
\* JsonProcessorService._slugify: the same pipeline as slugify.
_slugify(text) ==
  IF ~Truthy(text) THEN <<>>
  ELSE TrimHyphensEnd(TrimHyphensStart(CollapseHyphens(StripNonWord(
         ReplaceChar(Transliterate(ReplaceRuns(toLowerCase(text), SpaceChars, <<"-">>)),
                     "&", <<"-", "a", "n", "d", "-">>)))))

\* p.field for a string field of a product: undefined when the product has no such key.
Field(p, k) == IF k \in DOMAIN p THEN p[k] ELSE NULL

\* The products of a data array a run may meet: one product name with every shape of
\* image fields, and the other ways of naming and keying a product with and without
\* images. "U+65E5" is a name whose slug is empty; " " is a whitespace-only URL.
JsonImageFields ==
  {EmptyRow,
   "mainImage" :> <<"u">>,
   ("mainImage" :> <<"u">>) @@ ("thumbnailImages" :> <<<<"v">>, <<"u">>>>),
   "thumbnailImages" :> <<<<>>>>,
   "thumbnailImages" :> <<<<"v">>, <<"v">>>>,
   ("mainImage" :> <<>>) @@ ("thumbnailImages" :> <<>>),
   "mainImage" :> <<" ">>}
JsonProducts ==
  {("productName" :> <<"T">>) @@ ("productId" :> <<"1">>) @@ img : img \in JsonImageFields}
  \cup {id @@ img :
          id \in {"productName" :> <<"T">>,
                  ("productName" :> <<"U+65E5">>) @@ ("productId" :> <<"2">>),
                  "productId" :> <<" ">>},
          img \in {EmptyRow, ("mainImage" :> <<"u">>) @@ ("thumbnailImages" :> <<<<"v">>, <<"u">>>>)}}

\* "Invalid JSON file. Check the content of the file." (Japanese in the source)
InvalidJsonMessage == "invalid JSON file"
\* "No array of products was found in the JSON data field."
NoDataArrayMessage == "no product array in the JSON data field"
\* "No processable product data was found in the JSON file."
NoProductsJsonMessage == "no processable product data found in the JSON file"

JsonHtmlBody(p) ==
  (IF Truthy(Field(p, "description")) THEN ReplaceChar(p["description"], "\n", BrLit) ELSE <<>>)
  \o (IF Truthy(Field(p, "caution"))
      THEN CautionPrefix \o ReplaceChar(p["caution"], "\n", BrLit) ELSE <<>>)
  \o (IF Truthy(Field(p, "material"))
      THEN MaterialPrefix \o ReplaceChar(p["material"], "\n", BrLit) ELSE <<>>)

JsonHandle(p) == OrElse(OrElse(_slugify(Field(p, "productName")), Field(p, "productId")), <<>>)

JsonProductRow(p) ==
  [c \in {"Handle", "Title", "Body (HTML)", "Vendor", "Tags", "Option1 Name",
          "Option1 Value", "Variant SKU", "Variant Image", "Variant Price",
          "Variant Inventory Qty", "Variant Grams", "Variant Requires Shipping",
          "Variant Taxable", "Published", "Gift Card"} |->
     CASE c = "Handle" -> JsonHandle(p)
       [] c = "Title" -> OrElse(Field(p, "productName"), <<>>)
       [] c = "Body (HTML)" -> JsonHtmlBody(p)
       [] c = "Vendor" -> OrElse(Field(p, "brandName"), YourStore)
       [] c = "Tags" ->
            JoinWith(FilterBoolean(<<Field(p, "color"), Field(p, "material"),
                                     Field(p, "fitLevel")>>), CommaSpace)
       [] c = "Option1 Name" -> SizeLit
       [] c = "Option1 Value" -> OrElse(Field(p, "size"), DefaultTitle)
       [] c = "Variant SKU" -> OrElse(Field(p, "productId"), <<>>)
       [] c = "Variant Image" -> OrElse(Field(p, "mainImage"), <<>>)
       [] c = "Variant Price" -> PriceZero
       [] c = "Variant Inventory Qty" -> 0
       [] c = "Variant Grams" -> 0
       [] c = "Variant Requires Shipping" -> TrueLit
       [] c = "Variant Taxable" -> TrueLit
       [] c = "Published" -> TrueLit
       [] c = "Gift Card" -> FalseLit]

\* p.mainImage || (p.thumbnailImages && p.thumbnailImages.length > 0)
JsonHasImages(p) ==
  Truthy(Field(p, "mainImage"))
  \/ ("thumbnailImages" \in DOMAIN p /\ Len(p["thumbnailImages"]) > 0)

\* The forEach over thumbnailImages: a thumb is pushed when truthy and not yet included.
RECURSIVE PushThumbs(_, _)
PushThumbs(allImages, thumbs) ==
  IF thumbs = <<>> THEN allImages
  ELSE PushThumbs(IF Head(thumbs) # <<>> /\ Head(thumbs) \notin Range(allImages)
                  THEN Append(allImages, Head(thumbs)) ELSE allImages,
                  Tail(thumbs))

\* PushThumbs without the allImages.includes test.
RECURSIVE PushThumbsNoDedup(_, _)
PushThumbsNoDedup(allImages, thumbs) ==
  IF thumbs = <<>> THEN allImages
  ELSE PushThumbsNoDedup(IF Head(thumbs) # <<>> THEN Append(allImages, Head(thumbs))
                         ELSE allImages,
                         Tail(thumbs))

JsonAllImagesNoDedup(p) ==
  PushThumbsNoDedup(IF Truthy(Field(p, "mainImage")) THEN <<p["mainImage"]>> ELSE <<>>,
                    IF "thumbnailImages" \in DOMAIN p THEN p["thumbnailImages"] ELSE <<>>)

JsonAllImages(p) ==
  PushThumbs(IF Truthy(Field(p, "mainImage")) THEN <<p["mainImage"]>> ELSE <<>>,
             IF "thumbnailImages" \in DOMAIN p THEN p["thumbnailImages"] ELSE <<>>)

\* The rows one product appends to rows, given the handles already processed for images.
JsonExpand(p, processed) ==
  LET handle == JsonHandle(p)
      allImages == JsonAllImages(p)
  IN IF JsonHasImages(p) /\ handle \notin processed
     THEN <<IF Len(allImages) > 0
            THEN ("Image Src" :> allImages[1]) @@ ("Image Position" :> 1) @@ JsonProductRow(p)
            ELSE JsonProductRow(p)>>
          \o [i \in 1..(Len(allImages) - 1) |->
                ("Handle" :> handle) @@ ("Image Src" :> allImages[i + 1])
                @@ ("Image Position" :> i + 1)]
     ELSE <<JsonProductRow(p)>>

JsonInit ==
  /\ pc = "parse"
  /\ log = <<>>
  /\ result = Pending
  /\ mode = "json"
  /\ JsonIdle /\ CsvIdle /\ ShopifyIdle /\ ScraperIdle /\ SlugIdle /\ ConcIdle /\ LaterIdle

\* JSON.parse throws.
JsonParseInvalid ==
  /\ pc = "parse"
  /\ result' = Thrown(InvalidJsonMessage)
  /\ pc' = "done"
  /\ UNCHANGED <<log, jsonVars, NotJson>>

\* parsedJson.data is not an array.
JsonNoDataArray ==
  /\ pc = "parse"
  /\ result' = Thrown(NoDataArrayMessage)
  /\ pc' = "done"
  /\ UNCHANGED <<log, jsonVars, NotJson>>

JsonParseArray ==
  /\ pc = "parse"
  /\ pc' = "loop"
  /\ UNCHANGED <<log, result, jsonVars, NotJson>>

\* JsonProduct overwriting the row already emitted for the handle, if any.
JsonProductUpsert(p) ==
  /\ pc = "loop"
  /\ Len(data) < MaxRows
  /\ data' = Append(data, p)
  /\ LET new == JsonExpand(p, processedHandlesForImages)
         old == {k \in 1..Len(rows) :
                   "Title" \in DOMAIN rows[k] /\ rows[k]["Handle"] = JsonHandle(p)}
     IN IF old # {}
        THEN /\ rows' = [rows EXCEPT ![CHOOSE k \in old : TRUE] = JsonProductRow(p)]
             /\ UNCHANGED rowProduct
        ELSE /\ rows' = rows \o new
             /\ rowProduct' = rowProduct \o [i \in 1..Len(new) |-> Len(data) + 1]
  /\ processedHandlesForImages' =
       IF JsonHasImages(p) /\ JsonHandle(p) \notin processedHandlesForImages
       THEN processedHandlesForImages \cup {JsonHandle(p)}
       ELSE processedHandlesForImages
  /\ UNCHANGED <<pc, log, result, NotJson>>

\* One iteration of `for (const p of data)`.
JsonProduct(p) ==
  /\ pc = "loop"
  /\ Len(data) < MaxRows
  /\ data' = Append(data, p)
  /\ LET new == JsonExpand(p, processedHandlesForImages)
     IN /\ rows' = rows \o new
        /\ rowProduct' = rowProduct \o [i \in 1..Len(new) |-> Len(data) + 1]
  /\ processedHandlesForImages' =
       IF JsonHasImages(p) /\ JsonHandle(p) \notin processedHandlesForImages
       THEN processedHandlesForImages \cup {JsonHandle(p)}
       ELSE processedHandlesForImages
  /\ UNCHANGED <<pc, log, result, NotJson>>

\* After the loop: the guard on no row, and Papa.unparse.
JsonFinish ==
  /\ pc = "loop"
  /\ IF Len(rows) = 0
     THEN result' = Thrown(NoProductsJsonMessage)
     ELSE result' = Returned(Unparse(rows))
  /\ pc' = "done"
  /\ UNCHANGED <<log, jsonVars, NotJson>>

JsonNext ==
  \/ JsonParseInvalid
  \/ JsonNoDataArray
  \/ JsonParseArray
  \/ \E p \in JsonProducts : JsonProduct(p)
  \/ JsonFinish

SpecJson == JsonInit /\ [][JsonNext]_vars

\* ------------------------------------------------------------------ structured-array mode: properties
\* The number of rows of the output that product i of data contributed.
JsonRowCount(i) == Cardinality({j \in 1..Len(rowProduct) : rowProduct[j] = i})

\* k: the number of distinct non-empty URLs among mainImage followed by thumbnailImages.
DistinctImages(p) ==
  Cardinality(({Field(p, "mainImage")}
               \cup (IF "thumbnailImages" \in DOMAIN p THEN Range(p["thumbnailImages"]) ELSE {}))
              \ {NULL, <<>>})

\* Whether a product before product i of data has the handle of product i and images.
HandleTakenBefore(i) ==
  \E j \in 1..(i - 1) : JsonHandle(data[j]) = JsonHandle(data[i]) /\ JsonHasImages(data[j])

\* C4 as stated: every product contributes k rows when k > 0 and one row when k = 0,
\* whatever the other products are.
C4_RowCountWhateverOthers ==
  \A i \in 1..Len(data) :
    JsonRowCount(i) = IF DistinctImages(data[i]) > 0 THEN DistinctImages(data[i]) ELSE 1

\* C4 amended: a product contributes k rows when k > 0 and no earlier product of the
\* input with the same Handle had images (a non-empty mainImage or a non-empty
\* thumbnailImages array); every other product contributes exactly one row.
C4_RowCountFirstOfHandle ==
  \A i \in 1..Len(data) :
    JsonRowCount(i) =
      IF DistinctImages(data[i]) > 0 /\ ~HandleTakenBefore(i)
      THEN DistinctImages(data[i]) ELSE 1

\* C4 witness: a finished run of two products with different handles where the
\* second has a thumbnail repeating its main image and contributed two rows.
C4_Witness ==
  /\ result.status = "returned"
  /\ Len(data) >= 2
  /\ JsonHandle(data[1]) # JsonHandle(data[2])
  /\ JsonHasImages(data[1])
  /\ "thumbnailImages" \in DOMAIN data[2]
  /\ Len(data[2]["thumbnailImages"]) = 2
  /\ DistinctImages(data[2]) = 2
  /\ JsonRowCount(2) = 2

\* C11: a product of the input whose productId is absent or blank contributes no
\* row to the output.
C11_NoIdNoRow ==
  \A i \in 1..Len(data) :
    ~NonBlank(OrElse(Field(data[i], "productId"), <<>>)) => JsonRowCount(i) = 0

\* Whether a product has a non-blank mainImage or a non-blank thumbnail.
HasNonBlankImage(p) ==
  \/ NonBlank(Field(p, "mainImage"))
  \/ ("thumbnailImages" \in DOMAIN p
      /\ \E n \in 1..Len(p["thumbnailImages"]) : NonBlank(p["thumbnailImages"][n]))

\* C26: for every handle of a product of the input that has a non-blank
\* mainImage or a non-blank thumbnail, the output holds exactly one row with that
\* Handle and Image Position 1.
C26_ImagesOncePerHandle ==
  \A i \in 1..Len(data) :
    HasNonBlankImage(data[i]) =>
      Cardinality({j \in 1..Len(rows) :
                     /\ rows[j]["Handle"] = JsonHandle(data[i])
                     /\ "Image Position" \in DOMAIN rows[j]
                     /\ rows[j]["Image Position"] = 1}) = 1

\* ------------------------------------------------------------------ re-projection (Shopify export) mode
\* The parsed rows of an export a run may meet: every cell is a string or absent.
ShopifyInputRows ==
  {("Handle" :> <<"h">>) @@ ("Title" :> t) @@ ("Vendor" :> v) @@ ("Variant SKU" :> <<"k">>) :
     t \in {<<>>, <<"A">>, <<"B">>}, v \in {<<>>, <<"V">>}}
  \cup {EmptyRow,
        ("Handle" :> <<" ">>) @@ ("Title" :> <<"A">>) @@ ("Vendor" :> <<>>),
        ("Handle" :> <<"g">>) @@ ("Title" :> <<" ">>) @@ ("Option1 Name" :> <<"O">>)
          @@ ("Published" :> <<"F", "A", "L", "S", "E">>) @@ ("Tags" :> <<" ">>) @@ ("Image Src" :> <<"u">>),
        ("Title" :> <<"B">>) @@ ("Vendor" :> <<"V">>) @@ ("Option1 Name" :> <<" ">>),
        ("Handle" :> <<"h">>) @@ ("Variant Barcode" :> <<"z">>)}

\* "The CSV file is empty, or its header is invalid." (Japanese in the source)
EmptyShopifyMessage == "CSV file is empty or its header is invalid"

\* The columns of the forward-fill pass.
ForwardFilled == {"Title", "Vendor", "Option1 Name"}

\* CellFilled without the trim.
CellFilledNoTrim(row, col) == col \in DOMAIN row /\ Truthy(row[col])

\* newRow[col] && String(newRow[col]).trim() !== ''
CellFilled(row, col) == col \in DOMAIN row /\ Truthy(row[col]) /\ trim(row[col]) # <<>>

\* One column of the forward-fill of one row: the cell, or the remembered value.
FillCell(row, col, last) == IF CellFilled(row, col) THEN row ELSE (col :> last) @@ row

\* The remembered value of the column after the row.
NextLast(row, col, last) == IF CellFilled(row, col) THEN row[col] ELSE last

\* The body of rows.map(row => ...) of the forward-fill pass.
ForwardFill(row, lt, lv, lo) ==
  FillCell(FillCell(FillCell(row, "Title", lt), "Vendor", lv), "Option1 Name", lo)

\* const defaults
defaults ==
  ("Vendor" :> YourStore) @@ ("Published" :> TrueLit) @@ ("Option1 Name" :> TitleLit)
  @@ ("Option1 Value" :> DefaultTitle) @@ ("Variant Grams" :> ZeroLit)
  @@ ("Variant Inventory Policy" :> DenyLit) @@ ("Variant Fulfillment Service" :> ManualLit)
  @@ ("Variant Inventory Qty" :> ZeroLit) @@ ("Variant Price" :> ZeroLit)
  @@ ("Variant Requires Shipping" :> TrueLit) @@ ("Variant Taxable" :> TrueLit)
  @@ ("Gift Card" :> FalseLit) @@ ("Body (HTML)" :> <<>>) @@ ("Tags" :> <<>>)

\* HandleBlank without the trim.
HandleBlankNoTrim(row) == ~("Handle" \in DOMAIN row /\ Truthy(row["Handle"]))

\* !newRow['Handle'] || String(newRow['Handle']).trim() === ''
HandleBlank(row) == ~("Handle" \in DOMAIN row /\ Truthy(row["Handle"]) /\ trim(row["Handle"]) # <<>>)

\* !(key in newRow) || newRow[key] === null || newRow[key] === undefined
\*   || String(newRow[key]).trim() === ''
NeedsDefault(row, key) == key \notin DOMAIN row \/ row[key] = NULL \/ trim(row[key]) = <<>>

\* ApplyDefaults filling only the columns the row lacks.
ApplyDefaultsAbsentOnly(row) == row @@ defaults

\* for (const key in defaults) { ... newRow[key] = defaults[key] }
ApplyDefaults(row) ==
  [c \in DOMAIN row \cup DOMAIN defaults |->
     IF c \in DOMAIN defaults /\ NeedsDefault(row, c) THEN defaults[c] ELSE row[c]]

\* The null the defaults map returns for a skipped row: a row whose only key is no column.
NullRow == "null" :> <<>>

\* The text Papa.unparse writes for one cell of a parsed row.
InputCellText(row, col) == IF col \in DOMAIN row /\ row[col] # NULL THEN row[col] ELSE <<>>

\* Papa.unparse without the columns option: a line holds the row's own cells only.
UnparseStringsPresentOnly(rs) ==
  <<MATRIXIFY_HEADERS>> \o
  [i \in 1..Len(rs) |->
     LET present == SelectSeq(MATRIXIFY_HEADERS, LAMBDA c : c \in DOMAIN rs[i])
     IN [j \in 1..Len(present) |-> InputCellText(rs[i], present[j])]]

UnparseStrings(rs) ==
  <<MATRIXIFY_HEADERS>> \o
  [i \in 1..Len(rs) |->
     [j \in 1..Len(MATRIXIFY_HEADERS) |-> InputCellText(rs[i], MATRIXIFY_HEADERS[j])]]

ShopifyInit ==
  /\ pc = "parse"
  /\ log = <<>>
  /\ result = Pending
  /\ mode = "shopify"
  /\ ShopifyIdle /\ CsvIdle /\ JsonIdle /\ ScraperIdle /\ SlugIdle /\ ConcIdle /\ LaterIdle

\* parseCsv rejects: no data row, or Papa's error callback.
ShopifyParseReject ==
  /\ pc = "parse"
  /\ \E message \in {EmptyShopifyMessage, "papaparse error"} : result' = Thrown(message)
  /\ \E warnings \in BOOLEAN :
       log' = <<LogEntry("ShopifyExportCsvStart", "INFO")>>
              \o (IF warnings THEN <<LogEntry("CSV parsing warnings", "WARNING")>> ELSE <<>>)
  /\ pc' = "done"
  /\ UNCHANGED <<shopifyVars, NotShopify>>

\* parseCsv resolves with at least one row.
ShopifyParseRows ==
  /\ pc = "parse"
  /\ \E warnings \in BOOLEAN :
       log' = <<LogEntry("ShopifyExportCsvStart", "INFO")>>
              \o (IF warnings THEN <<LogEntry("CSV parsing warnings", "WARNING")>> ELSE <<>>)
              \o <<LogEntry("CsvParsed", "INFO")>>
  /\ pc' = "ffill"
  /\ UNCHANGED <<result, shopifyVars, NotShopify>>

\* One row of the forward-fill map.
ShopifyFillRow(row) ==
  /\ pc = "ffill"
  /\ Len(parsed) < MaxRows
  /\ parsed' = Append(parsed, row)
  /\ shopifyRows' = Append(shopifyRows, ForwardFill(row, lastTitle, lastVendor, lastOption1Name))
  /\ lastTitle' = NextLast(row, "Title", lastTitle)
  /\ lastVendor' = NextLast(row, "Vendor", lastVendor)
  /\ lastOption1Name' = NextLast(row, "Option1 Name", lastOption1Name)
  /\ UNCHANGED <<pc, log, result, mapped, processedRows, NotShopify>>

\* The forward-fill map is over.
ShopifyFillDone ==
  /\ pc = "ffill"
  /\ Len(parsed) >= 1
  /\ log' = Append(log, LogEntry("ForwardFilled", "INFO"))
  /\ pc' = "defaults"
  /\ UNCHANGED <<result, shopifyVars, NotShopify>>

\* One row of the defaults map.
ShopifyDefaultsRow ==
  /\ pc = "defaults"
  /\ Len(mapped) < Len(shopifyRows)
  /\ LET row == shopifyRows[Len(mapped) + 1]
     IN IF HandleBlank(row)
        THEN /\ log' = Append(log, LogEntry("Skipping row with empty Handle", "WARNING"))
             /\ mapped' = Append(mapped, NullRow)
        ELSE /\ mapped' = Append(mapped, ApplyDefaults(row))
             /\ UNCHANGED log
  /\ UNCHANGED <<pc, result, parsed, shopifyRows, lastTitle, lastVendor, lastOption1Name,
                 processedRows, NotShopify>>

\* The filter, the guard on no processed row, and Papa.unparse.
ShopifyFinish ==
  /\ pc = "defaults"
  /\ Len(mapped) = Len(shopifyRows)
  /\ processedRows' = SelectSeq(mapped, LAMBDA row : row # NullRow)
  /\ IF Len(processedRows') = 0
     THEN /\ log' = log \o <<LogEntry("DefaultsSet", "INFO"),
                             LogEntry("No processable rows", "ERROR")>>
          /\ result' = ReturnedNull
     ELSE /\ log' = log \o <<LogEntry("DefaultsSet", "INFO"),
                             LogEntry("Matrixify CSV generated", "SUCCESS")>>
          /\ result' = Returned(UnparseStrings(processedRows'))
  /\ pc' = "done"
  /\ UNCHANGED <<parsed, shopifyRows, lastTitle, lastVendor, lastOption1Name, mapped,
                 NotShopify>>

ShopifyNext ==
  \/ ShopifyParseReject
  \/ ShopifyParseRows
  \/ \E row \in ShopifyInputRows : ShopifyFillRow(row)
  \/ ShopifyFillDone
  \/ ShopifyDefaultsRow
  \/ ShopifyFinish

SpecShopify == ShopifyInit /\ [][ShopifyNext]_vars

\* ------------------------------------------------------------------ re-projection mode: properties
\* A cell of a row that is present and non-blank after trimming.
NonBlankCell(row, col) == col \in DOMAIN row /\ NonBlank(row[col])

\* The value of column col in the nearest parsed row j <= i whose cell is non-blank
\* after trimming; the empty string when there is none.
NearestNonBlank(i, col) ==
  IF \E j \in 1..i : NonBlankCell(parsed[j], col)
  THEN parsed[CHOOSE j \in 1..i :
                /\ NonBlankCell(parsed[j], col)
                /\ \A j2 \in (j + 1)..i : ~NonBlankCell(parsed[j2], col)][col]
  ELSE <<>>

\* The indices of the parsed rows whose Handle is non-blank after trimming, in order.
Survivors ==
  SelectSeq([i \in 1..Len(parsed) |-> i], LAMBDA i : NonBlankCell(parsed[i], "Handle"))

\* Every column name a row of this mode can carry.
ShopifyColumns ==
  Range(MATRIXIFY_HEADERS) \cup DOMAIN defaults
  \cup UNION {DOMAIN parsed[i] : i \in 1..Len(parsed)}

\* C5: after the forward-fill pass, the Title, Vendor and Option1 Name cells of row i
\* hold the value of the column in the nearest row j <= i, over all parsed rows, whose
\* original cell is non-blank after trimming, and the empty string when there is none.
C5_ForwardFillNearest ==
  \A i \in 1..Len(shopifyRows) : \A col \in ForwardFilled :
    /\ col \in DOMAIN shopifyRows[i]
    /\ shopifyRows[i][col] = NearestNonBlank(i, col)

\* C5 witness: the rows [A,V], [blank,blank], [B,blank] filled to [A,V], [A,V], [B,V].
C5_Witness ==
  /\ pc = "defaults"
  /\ Len(parsed) = 3
  /\ \A i \in 1..3 : {"Title", "Vendor"} \subseteq DOMAIN parsed[i]
  /\ [i \in 1..3 |-> parsed[i]["Title"]] = <<<<"A">>, <<>>, <<"B">>>>
  /\ [i \in 1..3 |-> parsed[i]["Vendor"]] = <<<<"V">>, <<>>, <<>>>>
  /\ [i \in 1..3 |-> shopifyRows[i]["Title"]] = <<<<"A">>, <<"A">>, <<"B">>>>
  /\ [i \in 1..3 |-> shopifyRows[i]["Vendor"]] = <<<<"V">>, <<"V">>, <<"V">>>>

\* C6: the data lines of the returned text are, one for one and in order, the parsed
\* rows whose Handle is non-blank after trimming: line k carries the Handle and the
\* Variant SKU of the k-th such row and its forward-filled Title, and no line has a
\* blank Handle.
C6_SurvivorsOneToOne ==
  /\ pc = "done" => Len(processedRows) = Len(Survivors) \/ result.status = "thrown"
  /\ (result.status = "returned" /\ result.hasText) =>
       LET lines == DataLines(result.generatedCsvString)
       IN /\ Len(lines) = Len(Survivors)
          /\ \A k \in 1..Len(lines) :
               /\ NonBlank(lines[k][Col("Handle")])
               /\ k <= Len(Survivors) =>
                    /\ lines[k][Col("Handle")] = parsed[Survivors[k]]["Handle"]
                    /\ lines[k][Col("Variant SKU")]
                         = (IF "Variant SKU" \in DOMAIN parsed[Survivors[k]]
                            THEN parsed[Survivors[k]]["Variant SKU"] ELSE <<>>)
                    /\ lines[k][Col("Title")] = NearestNonBlank(Survivors[k], "Title")

\* C6 witness: three parsed rows, the middle one with a blank Handle, two data lines.
C6_Witness ==
  /\ result.status = "returned" /\ result.hasText
  /\ Len(parsed) = 3
  /\ Survivors = <<1, 3>>
  /\ parsed[1]["Handle"] # parsed[3]["Handle"]
  /\ Len(DataLines(result.generatedCsvString)) = 2

\* C7: in every surviving row, a column of the default table holds the table default
\* when its cell is absent or blank after forward-fill and its forward-filled value
\* otherwise; a column outside the table and outside the three forward-filled columns
\* holds what the parsed row held, and is absent when the parsed row lacked it.
C7_DefaultsOnlyWhereBlank ==
  (pc = "done" /\ result.status = "returned" /\ Len(processedRows) = Len(Survivors)) =>
    \A k \in 1..Len(processedRows) :
      LET row == processedRows[k]
          filled == shopifyRows[Survivors[k]]
          original == parsed[Survivors[k]]
      IN \A col \in ShopifyColumns :
           IF col \in DOMAIN defaults
           THEN /\ col \in DOMAIN row
                /\ row[col] = IF NonBlankCell(filled, col) THEN filled[col] ELSE defaults[col]
           ELSE IF col \in ForwardFilled
           THEN col \in DOMAIN row /\ row[col] = filled[col]
           ELSE /\ col \in DOMAIN row <=> col \in DOMAIN original
                /\ col \in DOMAIN original => row[col] = original[col]

\* C7 witness: a surviving row whose blank Tags cell took the default while its
\* Published cell kept its own value and its Image Src cell was left alone.
C7_Witness ==
  /\ pc = "done"
  /\ \E k \in 1..Len(processedRows) :
       /\ k <= Len(Survivors)
       /\ NonBlankCell(parsed[Survivors[k]], "Published")
       /\ "Tags" \in DOMAIN parsed[Survivors[k]] /\ parsed[Survivors[k]]["Tags"] # <<>>
       /\ processedRows[k]["Tags"] = defaults["Tags"]
       /\ processedRows[k]["Published"] = parsed[Survivors[k]]["Published"]
       /\ processedRows[k]["Published"] # defaults["Published"]
       /\ processedRows[k]["Image Src"] = parsed[Survivors[k]]["Image Src"]

\* C8: a run whose input parsed to at least one row, every one of them filtered out,
\* ends with an error thrown to the caller.
C8_ZeroSurvivorsThrow ==
  (pc = "done" /\ Len(parsed) >= 1 /\ Len(Survivors) = 0) => result.status = "thrown"


\* ------------------------------------------------------------------ single-record scraper mode
\* The answers of the model a run may meet, parsed: the six required fields are
\* strings (any of them possibly empty), thumbnailImages is optional.
ScrapedThumbnails ==
  {EmptyRow,
   "thumbnailImages" :> <<>>,
   "thumbnailImages" :> <<<<"v">>>>,
   "thumbnailImages" :> <<<<"v">>, <<"w">>>>,
   "thumbnailImages" :> <<<<>>, <<"v">>>>,
   "thumbnailImages" :> <<<<"u">>, <<"v">>>>}
ScrapedProducts ==
  {("productName" :> nm) @@ ("sku" :> sku) @@ ("price" :> price) @@ ("mainImage" :> img)
   @@ ("description" :> <<"d">>) @@ ("vendor" :> <<"V">>) @@ th :
     nm \in {<<"T">>, <<"U+65E5">>}, sku \in {<<"1">>, <<"U+65E5">>},
     price \in {<<"$", "1">>, <<>>}, img \in {<<"u">>, <<>>}, th \in ScrapedThumbnails}

\* What can fail inside the try block: the request, an empty response text, JSON.parse.
GeminiFailures == {"request failed", "Gemini returned an empty response.", "invalid JSON"}
\* `Error during Gemini processing: ${errorMessage}`
GeminiErrorLog(e) == <<"Error during Gemini processing: ", e>>
\* `Geminiからのデータ抽出に失敗しました: ${errorMessage}` ("data extraction from Gemini failed")
GeminiErrorMessage(e) == <<"data extraction from Gemini failed: ", e>>

\* price.replace(/[^0-9.]/g, '')
StripNonPrice(price) == SelectSeq(price, LAMBDA ch : ch \in Range(DigitChars) \cup {"."})

ScraperTitle(d) == d["productName"] \o TitleSep \o d["sku"]

ScraperBaseRow(d) ==
  [c \in {"Handle", "Title", "Body (HTML)", "Vendor", "Tags", "Option1 Name",
          "Option1 Value", "Variant SKU", "Variant Price", "Variant Inventory Qty",
          "Variant Grams", "Variant Requires Shipping", "Variant Taxable", "Published",
          "Gift Card"} |->
     CASE c = "Handle" -> slugify(ScraperTitle(d))
       [] c = "Title" -> ScraperTitle(d)
       [] c = "Body (HTML)" -> d["description"]
       [] c = "Vendor" -> d["vendor"]
       [] c = "Tags" ->
            JoinWith(FilterBoolean(<<d["vendor"], Field(d, "material"), Field(d, "color")>>),
                     CommaSpace)
       [] c = "Option1 Name" -> SizeLit
       [] c = "Option1 Value" -> OrElse(Field(d, "size"), DefaultTitle)
       [] c = "Variant SKU" -> d["sku"]
       [] c = "Variant Price" -> OrElse(StripNonPrice(d["price"]), PriceZero)
       [] c = "Variant Inventory Qty" -> 0
       [] c = "Variant Grams" -> 0
       [] c = "Variant Requires Shipping" -> TrueLit
       [] c = "Variant Taxable" -> TrueLit
       [] c = "Published" -> TrueLit
       [] c = "Gift Card" -> FalseLit]

\* [mainImage, ...thumbnails].filter(Boolean)
ScraperAllImages(d) ==
  FilterBoolean(<<d["mainImage"]>>
                \o (IF "thumbnailImages" \in DOMAIN d THEN d["thumbnailImages"] ELSE <<>>))

ScraperMainVariantRow(d) ==
  ("Image Src" :> d["mainImage"]) @@ ("Variant Image" :> d["mainImage"])
  @@ ("Image Position" :> 1) @@ ScraperBaseRow(d)

\* ScraperImageRows with the image also written to Variant Image.
ScraperImageRowsWithVariantImage(d) ==
  LET allImages == ScraperAllImages(d)
  IN [i \in 1..(Len(allImages) - 1) |->
        ("Handle" :> slugify(ScraperTitle(d))) @@ ("Image Src" :> allImages[i + 1])
        @@ ("Variant Image" :> allImages[i + 1]) @@ ("Image Position" :> i + 1)]

\* for (let i = 1; i < allImages.length; i++)
ScraperImageRows(d) ==
  LET allImages == ScraperAllImages(d)
  IN [i \in 1..(Len(allImages) - 1) |->
        ("Handle" :> slugify(ScraperTitle(d))) @@ ("Image Src" :> allImages[i + 1])
        @@ ("Image Position" :> i + 1)]

\* The rows of outputRows.
ScraperExpand(d) == <<ScraperMainVariantRow(d)>> \o ScraperImageRows(d)

ScraperInit ==
  /\ pc = "start"
  /\ log = <<>>
  /\ result = Pending
  /\ mode = "scraper"
  /\ ScraperIdle /\ CsvIdle /\ JsonIdle /\ ShopifyIdle /\ SlugIdle /\ ConcIdle /\ LaterIdle

\* Entry of processUrlAndHtml up to the await of generateContent.
ScraperSend ==
  /\ pc = "start"
  /\ log' = Append(log, LogEntry("Sending HTML content to Gemini for data extraction...",
                                 "GEMINI"))
  /\ pc' = "extract"
  /\ UNCHANGED <<result, scraperVars, NotScraper>>

\* The catch block: the failure is logged and rethrown wrapped.
ScraperExtractFail(e) ==
  /\ pc = "extract"
  /\ log' = Append(log, LogEntry(GeminiErrorLog(e), "ERROR"))
  /\ result' = Thrown(GeminiErrorMessage(e))
  /\ pc' = "done"
  /\ UNCHANGED <<scraperVars, NotScraper>>

\* The await resumes with a response whose text parses to d.
ScraperExtract(d) ==
  /\ pc = "extract"
  /\ extractedData' = d
  /\ log' = Append(log, LogEntry("Successfully extracted structured data from Gemini.",
                                 "SUCCESS"))
  /\ pc' = "format"
  /\ UNCHANGED <<result, scraperRows, NotScraper>>

\* From the formatting log entry to the return of the unparsed text.
ScraperFormat ==
  /\ pc = "format"
  /\ scraperRows' = ScraperExpand(extractedData)
  /\ log' = log \o <<LogEntry("Formatting extracted data into Matrixify CSV format...", "INFO"),
                     LogEntry(<<"Created ", NumStr(Len(ScraperExpand(extractedData))),
                                " rows for Matrixify.">>, "INFO")>>
  /\ result' = Returned(Unparse(ScraperExpand(extractedData)))
  /\ pc' = "done"
  /\ UNCHANGED <<extractedData, NotScraper>>

ScraperNext ==
  \/ ScraperSend
  \/ \E e \in GeminiFailures : ScraperExtractFail(e)
  \/ \E d \in ScrapedProducts : ScraperExtract(d)
  \/ ScraperFormat

SpecScraper == ScraperInit /\ [][ScraperNext]_vars

\* The ordered image list: mainImage followed by thumbnailImages, blanks skipped.
ScraperImageList(d) ==
  SelectSeq(<<d["mainImage"]>>
            \o (IF "thumbnailImages" \in DOMAIN d THEN d["thumbnailImages"] ELSE <<>>),
            LAMBDA u : trim(u) # <<>>)

\* C12: when the ordered image list of the extracted product is non-empty, the
\* Image Src values of the output rows, read in row order, are exactly that list.
C12_NoImageLost ==
  (pc = "done" /\ result.status = "returned" /\ ScraperImageList(extractedData) # <<>>)
    => [j \in 1..Len(scraperRows) |-> scraperRows[j]["Image Src"]]
         = ScraperImageList(extractedData)


\* ------------------------------------------------------------------ the modes side by side
\* One invocation of any of the four entry points.
ModesInit == CsvInit \/ JsonInit \/ ShopifyInit \/ ScraperInit

ModesNext ==
  \/ mode = "csv" /\ CsvNext
  \/ mode = "json" /\ JsonNext
  \/ mode = "shopify" /\ ShopifyNext
  \/ mode = "scraper" /\ ScraperNext

SpecModes == ModesInit /\ [][ModesNext]_vars

\* The rows an expanding mode has built so far.
ModeRows ==
  CASE mode = "csv" -> outputRows
    [] mode = "json" -> rows
    [] mode = "scraper" -> scraperRows
    [] OTHER -> <<>>

\* The product (its position in the input) each of those rows was built from.
ModeRowGroup ==
  CASE mode = "csv" -> rowSource
    [] mode = "json" -> rowProduct
    [] mode = "scraper" -> [j \in 1..Len(scraperRows) |-> 1]
    [] OTHER -> <<>>

\* The positions in ModeRows of the rows of product g, in row order.
GroupRows(g) == SelectSeq([j \in 1..Len(ModeRows) |-> j], LAMBDA j : ModeRowGroup[j] = g)

\* C13: within each product's row group, the rows that carry an Image Position
\* carry exactly 1, 2, ..., m in row order.
C13_ImagePositionsContiguous ==
  \A g \in Range(ModeRowGroup) :
    LET withPos == SelectSeq(GroupRows(g), LAMBDA j : "Image Position" \in DOMAIN ModeRows[j])
    IN \A n \in 1..Len(withPos) : ModeRows[withPos[n]]["Image Position"] = n

\* C13 witness: a finished flexible-CSV run where one product has three rows, each
\* carrying an Image Position.
C13_Witness ==
  /\ mode = "csv" /\ result.status = "returned"
  /\ \E g \in Range(ModeRowGroup) :
       /\ Len(GroupRows(g)) = 3
       /\ \A n \in 1..3 : "Image Position" \in DOMAIN ModeRows[GroupRows(g)[n]]


\* The rows handed to Papa.unparse by the mode that ran.
ModeOutRows == IF mode = "shopify" THEN processedRows ELSE ModeRows

\* The text of a set cell: numbers in decimal, null as the empty string.
SetCellText(col, v) ==
  IF mode # "shopify" /\ col \in {"Image Position", "Variant Inventory Qty", "Variant Grams"}
  THEN NumStr(v)
  ELSE IF v = NULL THEN <<>> ELSE v

InputImageList(g) ==
  IF mode = "csv"
  THEN LET t == getCol(inputRows[g], "thumbnail_images")
       IN <<OrElse(getCol(inputRows[g], "main_image"), <<>>)>>
          \o (IF Truthy(t) THEN Thumbs(t) ELSE <<>>)
  ELSE <<OrElse(Field(data[g], "mainImage"), <<>>)>>
       \o (IF "thumbnailImages" \in DOMAIN data[g] THEN data[g]["thumbnailImages"] ELSE <<>>)

\* Whether row j carries an image.
HasImage(j) == "Image Src" \in DOMAIN ModeRows[j] /\ ModeRows[j]["Image Src"] # <<>>

\* C18: in structured-array and flexible-CSV modes the rows of each emitted product
\* form one contiguous block, the blocks follow the order of the products in the
\* input, the first row of a block is the primary row and the rows after it are
\* continuation rows, whose images follow the order of the product's image list.
C18_BlocksInInputOrder ==
  mode \in {"csv", "json"} =>
    /\ \A j \in 1..(Len(ModeRows) - 1) : ModeRowGroup[j] <= ModeRowGroup[j + 1]
    /\ \A g \in Range(ModeRowGroup) :
         LET block == GroupRows(g)
             list == InputImageList(g)
             withImage == SelectSeq(block, HasImage)
         IN /\ "Title" \in DOMAIN ModeRows[block[1]]
            /\ \A n \in 2..Len(block) : "Title" \notin DOMAIN ModeRows[block[n]]
            /\ \A n \in 1..Len(withImage) :
                 IndexOf(list, ModeRows[withImage[n]]["Image Src"]) > 0
            /\ \A n \in 1..(Len(withImage) - 1) :
                 IndexOf(list, ModeRows[withImage[n]]["Image Src"])
                   <= IndexOf(list, ModeRows[withImage[n + 1]]["Image Src"])

\* C18 witness: a finished structured-array run whose first two products each have
\* a block of two rows with two different images.
C18_Witness ==
  /\ mode = "json" /\ result.status = "returned"
  /\ \A g \in {1, 2} :
       /\ Len(GroupRows(g)) = 2
       /\ Cardinality({ModeRows[j]["Image Src"] : j \in Range(GroupRows(g))}) = 2


\* C19: in every expanding mode, a row of a product's group after the primary row
\* carries Handle, Image Src and Image Position and nothing else; its Handle is
\* the Handle of the group's primary row, its Image Position is its 1-based index
\* in the group, and the 15 other fields of its line of the returned text are empty.
C19_ContinuationRowsCarryOnlyImages ==
  \A g \in Range(ModeRowGroup) :
    LET block == GroupRows(g)
    IN \A n \in 2..Len(block) :
         LET row == ModeRows[block[n]]
         IN /\ DOMAIN row = {"Handle", "Image Src", "Image Position"}
            /\ row["Handle"] = ModeRows[block[1]]["Handle"]
            /\ row["Image Position"] = n
            /\ (result.status = "returned" /\ result.hasText) =>
                 \A j \in 1..Len(MATRIXIFY_HEADERS) :
                   MATRIXIFY_HEADERS[j] \notin {"Handle", "Image Src", "Image Position"}
                     => result.generatedCsvString[block[n] + 1][j] = <<>>

\* C19 witness: a returned scrape of three rows, the last two being continuation
\* rows of the one product.
C19_Witness ==
  /\ mode = "scraper" /\ result.status = "returned"
  /\ Len(GroupRows(1)) = 3
  /\ ModeRows[3]["Image Position"] = 3
  /\ result.generatedCsvString[4][Col("Title")] = <<>>


\* C27: in every mode that returns output text, every data row of the output has a
\* non-blank Handle.
C27_HandleNeverBlank ==
  \A j \in 1..Len(ModeOutRows) : NonBlankCell(ModeOutRows[j], "Handle")


\* Whether sequence a is the beginning of sequence b, element for element.
IsPrefix(a, b) == Len(a) <= Len(b) /\ \A n \in 1..Len(a) : a[n] = b[n]

\* One step leaves every input record read so far as it was, and every row
\* already in an output sequence where and as it was.
C25_Step ==
  /\ IsPrefix(inputRows, inputRows') /\ IsPrefix(data, data') /\ IsPrefix(parsed, parsed')
  /\ (mode = "scraper" /\ pc \in {"format", "done"}) => extractedData' = extractedData
  /\ IsPrefix(outputRows, outputRows') /\ IsPrefix(rows, rows')
  /\ IsPrefix(scraperRows, scraperRows')
  /\ IsPrefix(shopifyRows, shopifyRows') /\ IsPrefix(mapped, mapped')
  /\ IsPrefix(processedRows, processedRows')

\* C25: no step of any mode changes an input record, and no step changes or
\* removes a row that is already in an output sequence.
C25_InputsKeptOutputAppendOnly == [][C25_Step]_vars

\* C25 witness: a returned structured-array run whose second product has the
\* handle of the first, which already had a row in the output.
C25_Witness ==
  /\ mode = "json" /\ result.status = "returned"
  /\ Len(data) >= 2 /\ JsonHandle(data[1]) = JsonHandle(data[2])
  /\ data[1] # data[2]
  /\ Len(rows) >= 2 /\ rowProduct[1] = 1

\* ------------------------------------------------------------------ slugify on its own
\* The characters of the texts: a lower and an upper letter, a space, a hyphen, an
\* ampersand, an underscore (transliterated to a hyphen), a transliterated letter,
\* a letter outside the tables and a punctuation mark.
SlugAlphabet == {"a", "A", " ", "-", "&", "_", "U+00E9", "U+65E5", "!"}

\* null, and every text of at most MaxSlugLen characters.
\* "D747 Satin Twill Dress - Burgundy"
SlugExample ==
  <<"D", "7", "4", "7", " ", "S", "a", "t", "i", "n", " ", "T", "w", "i", "l", "l", " ",
    "D", "r", "e", "s", "s", " ", "-", " ", "B", "u", "r", "g", "u", "n", "d", "y">>

\* null, every text of at most MaxSlugLen characters, and the example.
SlugInputs == {NULL, SlugExample} \cup UNION {[1..n -> SlugAlphabet] : n \in 0..MaxSlugLen}

\* The three implementations applied to one text: slugify of dataExtractorService,
\* _slugify of JsonProcessorService, slugify of scraperService (the same text as
\* the first).
Slugs(text) == [extractor |-> slugify(text), json |-> _slugify(text), scraper |-> slugify(text)]

SlugInit ==
  /\ pc = "start"
  /\ log = <<>>
  /\ result = Pending
  /\ mode = "slug"
  /\ slugText \in SlugInputs
  /\ slugOnce = <<>> /\ slugTwice = <<>>
  /\ CsvIdle /\ JsonIdle /\ ShopifyIdle /\ ScraperIdle /\ ConcIdle /\ LaterIdle

\* slugify(x)
SlugifyOnce ==
  /\ mode = "slug" /\ pc = "start"
  /\ slugOnce' = Slugs(slugText)
  /\ pc' = "once"
  /\ UNCHANGED <<mode, log, result, slugText, slugTwice, csvVars, jsonVars, shopifyVars,
                 scraperVars, concVars, laterVars>>

\* slugify(slugify(x))
SlugifyTwice ==
  /\ mode = "slug" /\ pc = "once"
  /\ slugTwice' = [extractor |-> slugify(slugOnce.extractor), json |-> _slugify(slugOnce.json),
                   scraper |-> slugify(slugOnce.scraper)]
  /\ pc' = "done"
  /\ UNCHANGED <<mode, log, result, slugText, slugOnce, csvVars, jsonVars, shopifyVars,
                 scraperVars, concVars, laterVars>>

SlugNext == SlugifyOnce \/ SlugifyTwice

SpecSlug == SlugInit /\ [][SlugNext]_vars

\* C20: slugify(slugify(x)) = slugify(x) for every text x, null and empty included,
\* in each of the three implementations.
C20_SlugifyIdempotent ==
  (mode = "slug" /\ pc = "done") => slugTwice = slugOnce

\* C21: the result of slugify holds only word characters and hyphens, no two
\* hyphens in a row and no hyphen at either end; a text made of a word, a run of
\* white space and hyphens, and a word becomes the two words in lower case joined
\* by one hyphen; the example text becomes d747-satin-twill-dress-burgundy.
C21_SlugShape ==
  (mode = "slug" /\ pc # "start") =>
    LET text == slugText
        slug == slugOnce.extractor
        Letters == Range(LowerLetters) \cup Range(UpperLetters)
    IN /\ \A n \in 1..Len(slug) : IsWord(slug[n]) \/ slug[n] = "-"
       /\ \A n \in 1..(Len(slug) - 1) : ~(slug[n] = "-" /\ slug[n + 1] = "-")
       /\ slug # <<>> => (slug[1] # "-" /\ slug[Len(slug)] # "-")
       /\ text # NULL =>
            \A i, j \in 1..Len(text) :
              (/\ i + 1 < j
               /\ \A n \in 1..i : text[n] \in Letters
               /\ \A n \in (i + 1)..(j - 1) : text[n] \in {" ", "-"}
               /\ \A n \in j..Len(text) : text[n] \in Letters)
                => slug = toLowerCase(SubSeq(text, 1, i)) \o <<"-">>
                          \o toLowerCase(SubSeq(text, j, Len(text)))
       /\ text = SlugExample =>
            slug = <<"d", "7", "4", "7", "-", "s", "a", "t", "i", "n", "-", "t", "w", "i", "l",
                     "l", "-", "d", "r", "e", "s", "s", "-", "b", "u", "r", "g", "u", "n", "d",
                     "y">>

\* C21 witness: slugify was applied to the example text and gave a non-empty slug.
C21_Witness ==
  /\ mode = "slug" /\ pc = "once"
  /\ slugText = SlugExample
  /\ Len(slugOnce.extractor) = 31

\* C20 witness: slugify was applied twice to a text that it changed into a
\* non-empty handle by writing an ampersand out and dropping a character.
C20_Witness ==
  /\ mode = "slug" /\ pc = "done"
  /\ slugText = <<"A", "&", "!">>
  /\ slugOnce.extractor = <<"a", "-", "a", "n", "d">>
  /\ slugTwice.json = <<"a", "-", "a", "n", "d">>


\* ------------------------------------------------------------------ two invocations on one instance
\* Two calls of the same entry point are made on one service instance. A call runs
\* without interruption from its start, or from the resumption of an await, to its
\* next await or its end (one thread, run to completion); processCsv of
\* CsvProcessorService and processJson have no await, processCsv of
\* ShopifyProcessorService awaits parseCsv once.
Invocations == {1, 2}
Services == {"csv", "json", "shopify"}

\* The records of the inputs: keys, handles and forward-filled cells that two
\* invocations have in common.
ConcRecords(svc) ==
  CASE svc = "csv" ->
         {("productID" :> <<"A">>) @@ ("name" :> <<"x">>),
          ("productID" :> <<"A">>) @@ ("name" :> <<"y">>) @@ ("mainImage" :> <<"u">>),
          "productID" :> <<"B">>}
    [] svc = "json" ->
         {("productName" :> <<"T">>) @@ ("productId" :> <<"1">>) @@ ("mainImage" :> <<"u">>)
            @@ ("thumbnailImages" :> <<<<"v">>>>),
          ("productName" :> <<"T">>) @@ ("productId" :> <<"2">>) @@ ("mainImage" :> <<"w">>)
            @@ ("thumbnailImages" :> <<<<"v">>>>),
          "productId" :> <<"3">>}
    [] svc = "shopify" ->
         {("Handle" :> <<"h">>) @@ ("Title" :> <<"A">>) @@ ("Vendor" :> <<"V">>),
          ("Handle" :> <<"h">>) @@ ("Title" :> <<>>) @@ ("Vendor" :> <<>>),
          ("Handle" :> <<"g">>) @@ ("Title" :> <<"B">>)}

ConcInputs(svc) == UNION {[1..n -> ConcRecords(svc)] : n \in 0..MaxConcRows}

\* let lastTitle = ''; let lastVendor = ''; let lastOption1Name = '';
FreshLast == [lastTitle |-> <<>>, lastVendor |-> <<>>, lastOption1Name |-> <<>>]

IdleInvocation ==
  [pc |-> "idle", input |-> <<>>, next |-> 1, rows |-> <<>>, seen |-> {}, last |-> FreshLast,
   result |-> Pending]

\* The set every invocation would read and write if the dedup set were a field of
\* the instance.
InstanceSeen(i) == UNION {inv[k].seen : k \in Invocations}

\* The set invocation i reads: seenSkus, or processedHandlesForImages, of its own
\* call frame.
OwnSeen(i) == inv[i].seen

ConcInit ==
  /\ pc = "start"
  /\ log = <<>>
  /\ result = Pending
  /\ mode = "concurrent"
  /\ service \in Services
  /\ running = 0
  /\ inv = [i \in Invocations |-> IdleInvocation]
  /\ CsvIdle /\ JsonIdle /\ ShopifyIdle /\ ScraperIdle /\ SlugIdle /\ LaterIdle

ConcUnchanged ==
  <<mode, pc, result, service, csvVars, jsonVars, shopifyVars, scraperVars, slugVars, laterVars>>

\* Invocation i is called with an input: the code up to the loop, or up to the await.
ConcCall(i, input) ==
  /\ mode = "concurrent" /\ running = 0 /\ inv[i].pc = "idle"
  /\ CASE service = "csv" ->
            IF input = <<>>
            THEN /\ inv' = [inv EXCEPT ![i] = [@ EXCEPT !.pc = "done", !.input = input,
                                                    !.result = Thrown(EmptyCsvMessage)]]
                 /\ log' = Append(log, LogEntry("Parsing CSV file...", "INFO"))
                 /\ running' = 0
            ELSE /\ inv' = [inv EXCEPT ![i] = [@ EXCEPT !.pc = "loop", !.input = input,
                                                    !.rows = <<>>, !.seen = {}]]
                 /\ log' = log \o <<LogEntry("Parsing CSV file...", "INFO"),
                                    LogEntry("Found rows in the CSV. Starting processing.", "INFO")>>
                 /\ running' = i
       [] service = "json" ->
            /\ inv' = [inv EXCEPT ![i] = [@ EXCEPT !.pc = "loop", !.input = input,
                                               !.rows = <<>>, !.seen = {}]]
            /\ running' = i
            /\ UNCHANGED log
       [] service = "shopify" ->
            /\ inv' = [inv EXCEPT ![i] = [@ EXCEPT !.pc = "awaiting", !.input = input]]
            /\ log' = Append(log, LogEntry("ShopifyExportCsvStart", "INFO"))
            /\ running' = 0
  /\ UNCHANGED ConcUnchanged

\* The promise of parseCsv settles and invocation i resumes after its await.
ConcResume(i) ==
  /\ mode = "concurrent" /\ running = 0 /\ inv[i].pc = "awaiting"
  /\ IF inv[i].input = <<>>
     THEN /\ inv' = [inv EXCEPT ![i] = [@ EXCEPT !.pc = "done",
                                             !.result = Thrown(EmptyShopifyMessage)]]
          /\ running' = 0
          /\ UNCHANGED log
     ELSE /\ inv' = [inv EXCEPT ![i] = [@ EXCEPT !.pc = "loop", !.rows = <<>>,
                                             !.last = FreshLast]]
          /\ log' = Append(log, LogEntry("CsvParsed", "INFO"))
          /\ running' = i
  /\ UNCHANGED ConcUnchanged

\* One iteration of the loop of invocation i, which holds the thread.
ConcRow(i) ==
  /\ mode = "concurrent" /\ running = i /\ inv[i].pc = "loop"
  /\ inv[i].next <= Len(inv[i].input)
  /\ LET r == inv[i].input[inv[i].next]
     IN CASE service = "csv" ->
               LET styleNo == getCol(r, "product_id")
                   reason == CsvSkipReason(r, OwnSeen(i))
               IN IF reason # "none"
                  THEN /\ inv' = [inv EXCEPT ![i] = [@ EXCEPT !.next = @ + 1]]
                       /\ log' = Append(log, LogEntry(reason, "WARNING"))
                  ELSE /\ inv' = [inv EXCEPT ![i] =
                                    [@ EXCEPT !.next = @ + 1,
                                              !.seen = @ \cup {styleNo},
                                              !.rows = @ \o CsvExpand(r, styleNo, CsvHandle(r, styleNo))]]
                       /\ UNCHANGED log
          [] service = "json" ->
               /\ inv' = [inv EXCEPT ![i] =
                            [@ EXCEPT !.next = @ + 1,
                                      !.rows = @ \o JsonExpand(r, OwnSeen(i)),
                                      !.seen = IF JsonHasImages(r) /\ JsonHandle(r) \notin OwnSeen(i)
                                               THEN @ \cup {JsonHandle(r)} ELSE @]]
               /\ UNCHANGED log
          [] service = "shopify" ->
               /\ inv' = [inv EXCEPT ![i] =
                            [@ EXCEPT !.next = @ + 1,
                                      !.rows = Append(@, ForwardFill(r, inv[i].last.lastTitle,
                                                                     inv[i].last.lastVendor,
                                                                     inv[i].last.lastOption1Name)),
                                      !.last = [lastTitle |-> NextLast(r, "Title", @.lastTitle),
                                                lastVendor |-> NextLast(r, "Vendor", @.lastVendor),
                                                lastOption1Name |->
                                                  NextLast(r, "Option1 Name", @.lastOption1Name)]]]
               /\ UNCHANGED log
  /\ UNCHANGED <<running, ConcUnchanged>>

\* The code after the loop of invocation i, to its return or throw.
ConcFinish(i) ==
  /\ mode = "concurrent" /\ running = i /\ inv[i].pc = "loop"
  /\ inv[i].next > Len(inv[i].input)
  /\ CASE service = "csv" ->
            IF Len(inv[i].rows) = 0
            THEN /\ inv' = [inv EXCEPT ![i] = [@ EXCEPT !.pc = "done",
                                                    !.result = Thrown(NoProductsCsvMessage)]]
                 /\ UNCHANGED log
            ELSE /\ inv' = [inv EXCEPT ![i] = [@ EXCEPT !.pc = "done",
                                                    !.result = Returned(Unparse(inv[i].rows))]]
                 /\ log' = Append(log, LogEntry("Processed unique products. Generating final CSV.",
                                                "INFO"))
       [] service = "json" ->
            /\ inv' = [inv EXCEPT ![i] =
                         [@ EXCEPT !.pc = "done",
                                   !.result = IF Len(inv[i].rows) = 0
                                              THEN Thrown(NoProductsJsonMessage)
                                              ELSE Returned(Unparse(inv[i].rows))]]
            /\ UNCHANGED log
       [] service = "shopify" ->
            LET mappedRows == [k \in 1..Len(inv[i].rows) |->
                                 IF HandleBlank(inv[i].rows[k]) THEN NullRow
                                 ELSE ApplyDefaults(inv[i].rows[k])]
                processed == SelectSeq(mappedRows, LAMBDA row : row # NullRow)
            IN /\ inv' = [inv EXCEPT ![i] =
                            [@ EXCEPT !.pc = "done",
                                      !.result = IF Len(processed) = 0 THEN ReturnedNull
                                                 ELSE Returned(UnparseStrings(processed))]]
               /\ log' = log \o <<LogEntry("ForwardFilled", "INFO"), LogEntry("DefaultsSet", "INFO"),
                                  LogEntry(IF Len(processed) = 0 THEN "No processable rows"
                                           ELSE "Matrixify CSV generated",
                                           IF Len(processed) = 0 THEN "ERROR" ELSE "SUCCESS")>>
  /\ running' = 0
  /\ UNCHANGED ConcUnchanged

ConcNext ==
  \/ \E i \in Invocations : \E input \in ConcInputs(service) : ConcCall(i, input)
  \/ \E i \in Invocations : ConcResume(i)
  \/ \E i \in Invocations : ConcRow(i)
  \/ \E i \in Invocations : ConcFinish(i)

SpecConc == ConcInit /\ [][ConcNext]_vars

\* The rows a flexible-CSV invocation builds from an input when it runs alone.
RECURSIVE CsvAlone(_, _, _)
CsvAlone(input, seen, out) ==
  IF input = <<>> THEN out
  ELSE LET r == Head(input)
           styleNo == getCol(r, "product_id")
       IN IF CsvSkipReason(r, seen) # "none" THEN CsvAlone(Tail(input), seen, out)
          ELSE CsvAlone(Tail(input), seen \cup {styleNo},
                        out \o CsvExpand(r, styleNo, CsvHandle(r, styleNo)))

\* The rows a structured-array invocation builds from an input when it runs alone.
RECURSIVE JsonAlone(_, _, _)
JsonAlone(input, processed, out) ==
  IF input = <<>> THEN out
  ELSE LET p == Head(input)
       IN JsonAlone(Tail(input),
                    IF JsonHasImages(p) THEN processed \cup {JsonHandle(p)} ELSE processed,
                    out \o JsonExpand(p, processed))

\* The forward-filled rows of a re-projection that runs alone.
RECURSIVE ShopifyAlone(_, _, _)
ShopifyAlone(input, last, out) ==
  IF input = <<>> THEN out
  ELSE LET r == Head(input)
       IN ShopifyAlone(Tail(input),
                       [lastTitle |-> NextLast(r, "Title", last.lastTitle),
                        lastVendor |-> NextLast(r, "Vendor", last.lastVendor),
                        lastOption1Name |-> NextLast(r, "Option1 Name", last.lastOption1Name)],
                       Append(out, ForwardFill(r, last.lastTitle, last.lastVendor,
                                               last.lastOption1Name)))

\* The result of one invocation of a service on an input when no other runs.
RunAlone(svc, input) ==
  CASE svc = "csv" ->
         IF input = <<>> THEN Thrown(EmptyCsvMessage)
         ELSE IF CsvAlone(input, {}, <<>>) = <<>> THEN Thrown(NoProductsCsvMessage)
         ELSE Returned(Unparse(CsvAlone(input, {}, <<>>)))
    [] svc = "json" ->
         IF JsonAlone(input, {}, <<>>) = <<>> THEN Thrown(NoProductsJsonMessage)
         ELSE Returned(Unparse(JsonAlone(input, {}, <<>>)))
    [] svc = "shopify" ->
         IF input = <<>> THEN Thrown(EmptyShopifyMessage)
         ELSE LET filled == ShopifyAlone(input, FreshLast, <<>>)
                  kept == SelectSeq(filled, LAMBDA row : ~HandleBlank(row))
              IN IF kept = <<>> THEN ReturnedNull
                 ELSE Returned(UnparseStrings([k \in 1..Len(kept) |-> ApplyDefaults(kept[k])]))

\* C17: whatever the interleaving of two invocations of one service on one
\* instance, the result of each finished invocation is the result of that
\* invocation run alone on its input.
C17_InvocationsDoNotInterfere ==
  mode = "concurrent" =>
    \A i \in Invocations :
      inv[i].pc = "done" => inv[i].result = RunAlone(service, inv[i].input)

\* C17 witness: two re-projections were both called before either resumed, the
\* second one resumed and finished first, the first one filled the Title A forward
\* and the second one, whose only row has a blank Title, returned it blank.
C17_Witness ==
  /\ mode = "concurrent" /\ service = "shopify"
  /\ inv[1].pc = "done" /\ inv[2].pc = "done"
  /\ Len(log) >= 3
  /\ log[1].message = "ShopifyExportCsvStart" /\ log[2].message = "ShopifyExportCsvStart"
  /\ Len(inv[1].input) = 2 /\ Len(inv[2].input) = 1
  /\ inv[1].input[1]["Title"] = <<"A">> /\ inv[1].input[2]["Title"] = <<>>
  /\ inv[2].input[1]["Title"] = <<>>
  /\ inv[1].result.status = "returned" /\ inv[1].result.hasText
  /\ inv[1].result.generatedCsvString[3][Col("Title")] = <<"A">>
  /\ inv[2].result.status = "returned" /\ inv[2].result.hasText
  /\ inv[2].result.generatedCsvString[2][Col("Title")] = <<>>


\* ------------------------------------------------------------------ the column resolver on its own
\* What a cell of a parsed record may hold: null, the empty string, a blank
\* string, a value, a value with white space around it.
GetColCells == {NULL, <<>>, <<" ">>, <<"A">>, <<" ", "B", " ">>}

\* The records over the aliases of a canonical key: each alias is missing or holds
\* one of the cells.
GetColRows(key) ==
  UNION {[present -> GetColCells] : present \in SUBSET Range(COLUMN_MAP[key])}

GetColInit ==
  /\ pc = "start"
  /\ log = <<>>
  /\ result = Pending
  /\ mode = "getCol"
  /\ \E key \in DOMAIN COLUMN_MAP : \E row \in GetColRows(key) :
       callArgs = [row |-> row, key |-> key]
  /\ callResult = <<>>
  /\ EarlierIdle /\ CtorIdle /\ UiIdle

\* getCol(row, key)
GetColCall ==
  /\ mode = "getCol" /\ pc = "start"
  /\ callResult' = getCol(callArgs.row, callArgs.key)
  /\ pc' = "done"
  /\ UNCHANGED <<mode, log, result, callArgs, earlierVars, ctorVars, uiVars>>

SpecGetCol == GetColInit /\ [][GetColCall]_vars

\* Whether an alias qualifies in a record: the field exists, is not null and is
\* not blank once trimmed.
Qualifies(row, alias) == alias \in DOMAIN row /\ row[alias] # NULL /\ trim(row[alias]) # <<>>

\* C22: getCol returns the value of the first alias, in table order, that
\* qualifies in the record, and null exactly when no alias qualifies; a missing
\* field is skipped.
C22_FirstQualifyingAlias ==
  (mode = "getCol" /\ pc = "done") =>
    LET row == callArgs.row
        names == COLUMN_MAP[callArgs.key]
    IN /\ callResult = NULL <=> \A n \in 1..Len(names) : ~Qualifies(row, names[n])
       /\ \A n \in 1..Len(names) :
            (Qualifies(row, names[n]) /\ \A k \in 1..(n - 1) : ~Qualifies(row, names[k]))
              => callResult = row[names[n]]

\* C22 witness: the first alias of product_id is blank, the second is missing and
\* the third holds a value with white space around it, which is returned as it is.
C22_Witness ==
  /\ mode = "getCol" /\ pc = "done"
  /\ callArgs.key = "product_id"
  /\ DOMAIN callArgs.row = {"productID", "productId_1"}
  /\ callArgs.row["productID"] = <<" ">>
  /\ callArgs.row["productId_1"] = <<" ", "B", " ">>
  /\ callResult = <<" ", "B", " ">>

\* ------------------------------------------------------------------ the handle derivation on its own
\* The characters names and keys are drawn from: a letter, a space, a hyphen, an
\* ampersand, an accented letter of the replacement table and a character \w does
\* not match.
HandleAlphabet == {"a", " ", "-", "&", "U+00E9", "U+65E5"}
HandleTexts == UNION {[1..n -> HandleAlphabet] : n \in 0..MaxHandleLen}

\* The records the derivation is tried on: a key cell, with or without a name cell.
HandleRows ==
  {"productID" :> k : k \in HandleTexts}
  \cup {("productID" :> k) @@ ("name" :> n) : k \in HandleTexts, n \in HandleTexts}

HandleInit ==
  /\ pc = "start"
  /\ log = <<>>
  /\ result = Pending
  /\ mode = "handle"
  /\ \E r \in HandleRows : callArgs = [row |-> r]
  /\ callResult = <<>>
  /\ EarlierIdle /\ CtorIdle /\ UiIdle

\* if (!styleNo) { ...; continue; }
HandleNoKey ==
  /\ mode = "handle" /\ pc = "start"
  /\ ~Truthy(getCol(callArgs.row, "product_id"))
  /\ pc' = "skipped"
  /\ UNCHANGED <<mode, log, result, pureVars, earlierVars, ctorVars, uiVars>>

\* const title = `${name} - ${styleNo}`; const handle = slugify(title) || slugify(styleNo);
HandleDerive ==
  /\ mode = "handle" /\ pc = "start"
  /\ LET styleNo == getCol(callArgs.row, "product_id")
     IN /\ Truthy(styleNo)
        /\ callResult' = [styleNo |-> styleNo,
                          titleSlug |-> slugify(CsvTitle(callArgs.row, styleNo)),
                          keySlug |-> slugify(styleNo),
                          handle |-> CsvHandle(callArgs.row, styleNo)]
  /\ pc' = "done"
  /\ UNCHANGED <<mode, log, result, callArgs, earlierVars, ctorVars, uiVars>>

HandleNext == HandleNoKey \/ HandleDerive

SpecHandle == HandleInit /\ [][HandleNext]_vars

\* C28: for every name and every non-blank key, when the slug of the title
\* (name, " - ", key) is empty the slug of the key is empty too, so the derived
\* handle is empty exactly when the slug of the title is.
C28_FallbackNeverRescues ==
  (mode = "handle" /\ pc = "done") =>
    /\ callResult.titleSlug = <<>> => callResult.keySlug = <<>>
    /\ callResult.handle = <<>> <=> callResult.titleSlug = <<>>

\* C28 witness: a non-blank key and a name, both made of one character \w does not
\* match, leave no handle.
C28_Witness ==
  /\ mode = "handle" /\ pc = "done"
  /\ callArgs.row = ("productID" :> <<"U+65E5">>) @@ ("name" :> <<"U+65E5">>)
  /\ callResult.styleNo = <<"U+65E5">>
  /\ callResult.handle = <<>>

\* ------------------------------------------------------------------ the constructors that need API_KEY
LogTypes == {"INFO", "SUCCESS", "WARNING", "ERROR", "GEMINI"}

\* The logs the addLog callback may already have written to.
PriorLogs ==
  UNION {[1..n -> {LogEntry("earlier", t) : t \in LogTypes}] : n \in 0..MaxPriorLogs}

\* process.env.API_KEY: unset, empty or set.
ApiKeys == {NULL, <<>>, <<"k">>}

ApiKeyMessage == "API_KEY environment variable is not set."
\* Calling this.addLog while the field is still undefined.
NotAFunctionMessage == "TypeError: this.addLog is not a function"

CtorInit ==
  /\ pc = "start"
  /\ result = Pending
  /\ mode = "ctor"
  /\ log \in PriorLogs
  /\ callArgs = [log |-> log]
  /\ callResult = <<>>
  /\ ctorClass \in {"ScraperService", "DataExtractorService"}
  /\ apiKey \in ApiKeys
  /\ thisAddLog = FALSE
  /\ EarlierIdle /\ UiIdle

\* new DataExtractorService(addLog)
DataExtractorServiceNew ==
  /\ mode = "ctor" /\ pc = "start" /\ ctorClass = "DataExtractorService"
  /\ IF ~Truthy(apiKey)
     THEN /\ log' = Append(log, LogEntry(ApiKeyMessage, "ERROR"))
          /\ result' = Thrown(ApiKeyMessage)
          /\ thisAddLog' = thisAddLog
     ELSE /\ thisAddLog' = TRUE
          /\ log' = Append(log, LogEntry("DataExtractor Service initialized.", "INFO"))
          /\ result' = [status |-> "constructed"]
  /\ pc' = "done"
  /\ UNCHANGED <<mode, pureVars, ctorClass, apiKey, earlierVars, uiVars>>

\* new ScraperService(addLog)
ScraperServiceNew ==
  /\ mode = "ctor" /\ pc = "start" /\ ctorClass = "ScraperService"
  /\ IF ~Truthy(apiKey)
     THEN \* this.addLog is read before line 39 assigns it: the call throws
          /\ ~thisAddLog
          /\ log' = log
          /\ result' = Thrown(NotAFunctionMessage)
          /\ thisAddLog' = thisAddLog
     ELSE /\ thisAddLog' = TRUE
          /\ log' = log
          /\ result' = [status |-> "constructed"]
  /\ pc' = "done"
  /\ UNCHANGED <<mode, pureVars, ctorClass, apiKey, earlierVars, uiVars>>

CtorNext == DataExtractorServiceNew \/ ScraperServiceNew

SpecCtor == CtorInit /\ [][CtorNext]_vars

\* C29: with API_KEY unset, constructing ScraperService, like constructing
\* DataExtractorService, appends exactly one ERROR entry through addLog and fails
\* with the message "API_KEY environment variable is not set.".
C29_MissingKeyLoggedThenThrown ==
  (mode = "ctor" /\ pc = "done" /\ ~Truthy(apiKey)) =>
    /\ log = Append(callArgs.log, LogEntry(ApiKeyMessage, "ERROR"))
    /\ result = Thrown(ApiKeyMessage)

\* ------------------------------------------------------------------ the two views
\* The state of a mounted view: callArgs holds its inputs, log its logs, pc the
\* await its handler is suspended at ("idle" when no run is in flight).
Views == {"ScraperView", "CsvConverterView"}
UrlTexts == {<<>>, <<"u">>}
HtmlTexts == {<<>>, <<"h">>}
Files == {<<"a", ".", "c", "s", "v">>, <<"b", ".", "c", "s", "v">>}

\* "Processing starts..." (the messages of the views are Japanese in the source)
StartLog == LogEntry("processing starts", "INFO")
\* "Conversion and download of the file are complete."
DoneMessage == <<"file converted and downloaded">>
DoneLog == LogEntry(DoneMessage, "SUCCESS")
\* `An error occurred: ${errorMessage}`
UiErrorMessage(errorMessage) == <<"an error occurred: ", errorMessage>>

\* The message of the error inputFile.text() may reject with.
FileTextFailures == {"the file could not be read"}

\* What a call of processCsv adds to the log and settles its promise with: the
\* parse entries, then nothing more for an empty file, or the count of rows, one
\* warning for each skipped row and, unless every row was skipped, the summary.
SkipLogs ==
  UNION {[1..n -> {LogEntry(m, "WARNING") : m \in CsvSkipMessages}] : n \in 0..MaxSkipLogs}
ParseLogs ==
  {<<LogEntry("Parsing CSV file...", "INFO")>>,
   <<LogEntry("Parsing CSV file...", "INFO"),
     LogEntry("CSV parsing encountered warnings.", "WARNING")>>}
ProcessCsvRuns ==
  {[logs |-> p, settled |-> Thrown(EmptyCsvMessage)] : p \in ParseLogs}
  \cup {[logs |-> p \o <<LogEntry("Found rows in the CSV. Starting processing.", "INFO")>> \o w,
         settled |-> Thrown(NoProductsCsvMessage)] : p \in ParseLogs, w \in SkipLogs \ {<<>>}}
  \cup {[logs |-> p \o <<LogEntry("Found rows in the CSV. Starting processing.", "INFO")>> \o w
                   \o <<LogEntry("Processed unique products. Generating final CSV.", "INFO")>>,
         settled |-> ReturnedNull] : p \in ParseLogs, w \in SkipLogs}

\* What processUrlAndHtml adds to the log and settles with once generateContent
\* has settled.
ProcessUrlAndHtmlRuns ==
  {[logs |-> <<LogEntry(GeminiErrorLog(e), "ERROR")>>,
    settled |-> Thrown(GeminiErrorMessage(e))] : e \in GeminiFailures}
  \cup {[logs |-> <<LogEntry("Successfully extracted structured data from Gemini.", "SUCCESS"),
                    LogEntry("Formatting extracted data into Matrixify CSV format...", "INFO"),
                    LogEntry("Created rows for Matrixify.", "INFO")>>,
         settled |-> ReturnedNull]}

UiInit ==
  /\ mode = "ui"
  /\ pc = "idle"
  /\ log = <<>>
  /\ result = Pending
  /\ view \in Views
  /\ isLoading = FALSE
  /\ error = NULL
  /\ successMessage = NULL
  /\ callResult = <<>>
  /\ IF view = "ScraperView"
     THEN /\ callArgs = [url |-> <<"u">>, htmlContent |-> <<>>]
          /\ apiKey \in ApiKeys
     ELSE /\ callArgs = [inputFile |-> NULL]
          /\ apiKey = FALSE
  /\ ctorClass = "none" /\ thisAddLog = FALSE
  /\ EarlierIdle

UiFrame == UNCHANGED <<mode, callResult, view, ctorVars, earlierVars>>

\* onChange={(e) => setUrl(e.target.value)}
SetUrl ==
  /\ mode = "ui" /\ view = "ScraperView" /\ ~isLoading
  /\ \E v \in UrlTexts : callArgs' = [callArgs EXCEPT !.url = v]
  /\ UNCHANGED <<pc, log, result, isLoading, error, successMessage>>
  /\ UiFrame

\* onChange={(e) => setHtmlContent(e.target.value)}
SetHtmlContent ==
  /\ mode = "ui" /\ view = "ScraperView" /\ ~isLoading
  /\ \E v \in HtmlTexts : callArgs' = [callArgs EXCEPT !.htmlContent = v]
  /\ UNCHANGED <<pc, log, result, isLoading, error, successMessage>>
  /\ UiFrame

\* onFileChange={(file) => { setInputFile(file); setError(null); setSuccessMessage(null); setLogs([]); }}
OnFileChange ==
  /\ mode = "ui" /\ view = "CsvConverterView" /\ ~isLoading
  /\ \E file \in Files \cup {NULL} : callArgs' = [inputFile |-> file]
  /\ error' = NULL
  /\ successMessage' = NULL
  /\ log' = <<>>
  /\ UNCHANGED <<pc, result, isLoading>>
  /\ UiFrame

\* UiCatch without the finally block.
UiCatchNoFinally(errorMessage, logs) ==
  /\ error' = UiErrorMessage(errorMessage)
  /\ successMessage' = NULL
  /\ log' = Append(logs, LogEntry(UiErrorMessage(errorMessage), "ERROR"))
  /\ isLoading' = TRUE
  /\ pc' = "idle"

\* catch (e) { setError(...); addLog(..., LogType.ERROR); } finally { setIsLoading(false); }
\* (error and successMessage were set to null when the run started)
UiCatch(errorMessage, logs) ==
  /\ error' = UiErrorMessage(errorMessage)
  /\ successMessage' = NULL
  /\ log' = Append(logs, LogEntry(UiErrorMessage(errorMessage), "ERROR"))
  /\ isLoading' = FALSE
  /\ pc' = "idle"

\* the download, addLog(..., LogType.SUCCESS), setSuccessMessage(...); finally { setIsLoading(false); }
UiDone(logs) ==
  /\ error' = NULL
  /\ successMessage' = DoneMessage
  /\ log' = Append(logs, DoneLog)
  /\ isLoading' = FALSE
  /\ pc' = "idle"

\* ScraperView.handleProcessAndDownload up to its await: the button is enabled only
\* when no run is in flight and both inputs are given, so the guard passes. With
\* API_KEY unset the constructor throws and the run ends in the same step.
ScraperViewStart ==
  /\ mode = "ui" /\ view = "ScraperView" /\ pc = "idle" /\ ~isLoading
  /\ Truthy(callArgs.url) /\ Truthy(callArgs.htmlContent)
  /\ IF ~Truthy(apiKey)
     THEN /\ UiCatch(NotAFunctionMessage, <<StartLog>>)
          /\ result' = Thrown(NotAFunctionMessage)
     ELSE /\ isLoading' = TRUE
          /\ error' = NULL
          /\ successMessage' = NULL
          /\ log' = <<StartLog,
                      LogEntry("Sending HTML content to Gemini for data extraction...", "GEMINI")>>
          /\ result' = Pending
          /\ pc' = "awaitProcess"
  /\ UNCHANGED callArgs
  /\ UiFrame

\* generateContent settles: processUrlAndHtml runs to its end and the handler
\* resumes from its await
ScraperViewSettled ==
  /\ mode = "ui" /\ view = "ScraperView" /\ pc = "awaitProcess"
  /\ \E run \in ProcessUrlAndHtmlRuns :
       /\ result' = run.settled
       /\ IF run.settled.status = "returned"
          THEN UiDone(log \o run.logs)
          ELSE UiCatch(run.settled.message, log \o run.logs)
  /\ UNCHANGED callArgs
  /\ UiFrame

\* CsvConverterView.handleProcessAndDownload up to its first await
CsvViewStart ==
  /\ mode = "ui" /\ view = "CsvConverterView" /\ pc = "idle" /\ ~isLoading
  /\ Truthy(callArgs.inputFile)
  /\ isLoading' = TRUE
  /\ error' = NULL
  /\ successMessage' = NULL
  /\ log' = <<StartLog>>
  /\ result' = Pending
  /\ pc' = "awaitText"
  /\ UNCHANGED callArgs
  /\ UiFrame

\* inputFile.text() settles: the handler ends in its catch, or constructs the
\* service and calls processCsv, which runs to its end before the handler awaits
\* the promise it returned
CsvViewTextSettled ==
  /\ mode = "ui" /\ view = "CsvConverterView" /\ pc = "awaitText"
  /\ \/ \E run \in ProcessCsvRuns :
          /\ log' = log \o run.logs
          /\ result' = run.settled
          /\ pc' = "awaitProcess"
          /\ UNCHANGED <<isLoading, error, successMessage>>
     \/ \E e \in FileTextFailures :
          /\ UiCatch(e, log)
          /\ result' = Thrown(e)
  /\ UNCHANGED callArgs
  /\ UiFrame

\* CsvConverterView.handleProcessAndDownload from the await of processCsv on
CsvViewSettled ==
  /\ mode = "ui" /\ view = "CsvConverterView" /\ pc = "awaitProcess"
  /\ IF result.status = "returned" THEN UiDone(log) ELSE UiCatch(result.message, log)
  /\ UNCHANGED <<callArgs, result>>
  /\ UiFrame

UiNext ==
  \/ SetUrl
  \/ SetHtmlContent
  \/ OnFileChange
  \/ ScraperViewStart
  \/ ScraperViewSettled
  \/ CsvViewStart
  \/ CsvViewTextSettled
  \/ CsvViewSettled

\* An awaited promise settles and the event loop runs the continuation of the
\* handler that awaits it.
SpecUi ==
  /\ UiInit /\ [][UiNext]_vars
  /\ WF_vars(ScraperViewSettled) /\ WF_vars(CsvViewTextSettled) /\ WF_vars(CsvViewSettled)

====
